---- MODULE Spec2Model ----
(***************************************************************************)
(* State-machine model of the antigravity2api protocol translator.         *)
(*                                                                         *)
(*  Spec       the streamed branch of POST /v1/chat/completions together   *)
(*             with generateAssistantResponse, processChunk,               *)
(*             parseAndEmitStreamChunk and handleApiError.                 *)
(*  BuildSpec  the Claude request builder (claudeMessageToAntigravity and  *)
(*             its helpers) followed by convertToToolCall on the reply.    *)
(*  PoolSpec   concurrent client calls of generateAssistantResponse,       *)
(*             generateAssistantResponseNoStream and getAvailableModels    *)
(*             sharing the account pool.                                   *)
(*  RedirSpec  concurrent resolutions of grounding redirect URLs through   *)
(*             resolveWebSearchRedirectUrls and the shared redirect cache. *)
(*  PureSpec   the pure functions hasGroundingData and                     *)
(*             generateClaudeRequestBody / buildRequestBody, applied to    *)
(*             inputs drawn from bounded sets.                             *)
(*                                                                         *)
(* Bytes, characters, statuses and names are strings.  A response body is  *)
(* a sequence of byte tokens; a token stands for the bytes of one lexical  *)
(* unit of the server-sent-event text, and a network chunk boundary may    *)
(* fall between any two tokens:                                            *)
(*   "data:"      the 'data: ' marker                                      *)
(*   "NL"         '\n'                                                     *)
(*   "T"          a part {"thought":true,"text":"t"}                       *)
(*   "F1", "F2"   a part {"functionCall":{...}}                            *)
(*   "X" .. "Q"   a part {"text":"..."}: "X" opens the string, "Q" closes  *)
(*                it, the tokens between are the bytes of its characters   *)
(*   "a"          the one-byte character a                                 *)
(*   "C3", "A9"   the two bytes of the character U+00E9                    *)
(*   "R", "M"     "finishReason":"STOP" and "finishReason":"MAX_TOKENS"    *)
(***************************************************************************)
EXTENDS Integers, Sequences, FiniteSets, TLC

VARIABLES
    \* ---- streamed request (Spec) ----
    pc,           \* position of the route handler / generateAssistantResponse
    useAxios,     \* part_000:9   transport in use
    status,       \* HTTP status the backend answers with
    body,         \* bytes of the backend's response body
    pos,          \* number of body bytes delivered so far
    token,        \* part_000:145 token returned by tokenManager.getToken()
    disabled,     \* tokens handed to tokenManager.disableCurrentToken
    statusCode,   \* part_000:176 status seen by onStart
    errorBody,    \* part_000:175 body collected while statusCode !== 200
    buffer,       \* part_000:150 the trailing partial line
    state,        \* part_000:149 { thinkingStarted, toolCalls }
    events,       \* the events handed to the callback, in order
    hasToolCall,  \* formatters/claude.js:251
    res,          \* frames written to the client response
    resEnded,     \* res.end() was called
    error,        \* the rejection caught by generateAssistantResponse
    thrown,       \* the error thrown to the route handler
    \* ---- request builder (BuildSpec) ----
    bpc,              \* position of the builder
    enableThinking,   \* isEnableThinking(modelName)
    useFallbackSignature, \* config.useFallbackSignature
    cachedEntry,      \* what getSignature returns for (session, model)
    hasTools,         \* the request declares function tools
    claudeMessages,   \* the client messages converted so far
    antigravityMessages, \* the contents built so far
    toolNameMap,      \* registry written by setToolNameMapping
    delivered,        \* tool calls handed to the client by convertToToolCall
    \* ---- concurrent client calls (PoolSpec) ----
    useNativeAxios,   \* part_000:11  config.useNativeAxios
    enabled,          \* accounts the pool holds as enabled
    clientCalls,      \* per client: the call in progress
    sent,             \* backend requests sent, in order
    rejected,         \* accounts the backend has answered with 403
    started,          \* number of client calls started
    \* ---- pure functions (PureSpec) ----
    fn,               \* the function applied
    candidate,        \* webSearchGrounding.js:429 argument of hasGroundingData
    grounded,         \* its result
    claudeTools,      \* converters/claude.js:141 arguments of generateClaudeRequestBody
    modelName,
    parameters,
    requestBody,      \* its result
    systemPromptConfig, \* common.js:299-300,325-331,363 the config fields buildSystemInstruction reads
    userSystemPrompt, \* common.js:295 argument of buildSystemPromptParts
    systemInstruction, \* the parts built and the instruction returned
    \* ---- redirect resolution (RedirSpec) ----
    resolvedRedirectUrlCache, \* webSearchGrounding.js:146, entries of the tracked URLs
    otherEntries,     \* number of its entries for other URLs
    fetches,          \* the invocations of fetchFinalUrl, in order
    lookups,          \* per caller: the resolution of one search result
    lookupsStarted,   \* number of resolutions started
    \* ---- concurrent streamed calls (ConcSpec) ----
    transportIsAxios, \* part_000:9   useAxios, shared by the calls
    streamCalls,      \* per call: position, response body, the address of its state
    heap,             \* part_000:149-150 the state objects and line buffers allocated
    \* ---- tool-name registry across sessions (RegSpec) ----
    toolNameRegistry,   \* the registry setToolNameMapping writes, for one model
    registeredBy,  \* <<session, safeName, originalName>>: what each session registered last
    \* ---- client disconnect (CancelSpec) ----
    clientGone,  \* the client's connection was closed before the response ended
    \* ---- grounded client message (GroundSpec) ----
    builder,   \* the function that builds the client message
    rawJSON,   \* webSearchGrounding.js:236-238 candidates[0] of the backend response
    redirectResolves,   \* webSearchGrounding.js:157-166 fetchFinalUrl returns the final URL, or throws
    clientMessage,  \* the message built: its results and its content blocks
    \* ---- one response on both transports (PairSpec) ----
    backendResponse,   \* the status and the body bytes the backend answers with
    paths,  \* part_000:159-188 per transport: the call of generateAssistantResponse on it
    \* ---- one invocation of fetchFinalUrl (WalkSpec) ----
    fetchRun,  \* webSearchGrounding.js:94-143 one invocation of fetchFinalUrl and the requests it has issued
    \* ---- streamed web-search blocks (EmitSpec) ----
    webSearchState,   \* webSearchGrounding.js:329 the state emitWebSearchBlocks is entered with
    emitResult   \* the events handed to emitEvent, and state.contentIndex and state.webSearch.toolUseId on return

streamVars == <<pc, useAxios, status, body, pos, token, disabled, statusCode,
                errorBody, buffer, state, events, hasToolCall, res, resEnded,
                error, thrown>>
buildVars == <<bpc, enableThinking, useFallbackSignature, cachedEntry, hasTools,
               claudeMessages, antigravityMessages, toolNameMap, delivered>>
poolVars == <<useNativeAxios, enabled, clientCalls, sent, rejected, started>>
pureArgs == <<fn, candidate, claudeTools, modelName, parameters, systemPromptConfig,
              userSystemPrompt>>
pureVars == <<pureArgs, grounded, requestBody, systemInstruction>>
redirVars == <<resolvedRedirectUrlCache, otherEntries, fetches, lookups, lookupsStarted>>
concVars == <<transportIsAxios, streamCalls, heap>>
regVars == <<toolNameRegistry, registeredBy>>
cancelVars == <<clientGone>>
groundVars == <<builder, rawJSON, redirectResolves, clientMessage>>
pairVars == <<backendResponse, paths>>
walkVars == <<fetchRun>>
emitVars == <<webSearchState, emitResult>>
vars == <<streamVars, buildVars, poolVars, pureVars, redirVars, concVars, regVars, cancelVars, groundVars, pairVars, walkVars, emitVars>>

\* what the actions of one specification leave alone
streamFrame == <<buildVars, poolVars, pureVars, redirVars, concVars, regVars, cancelVars, groundVars, pairVars, walkVars, emitVars>>
buildFrame == <<streamVars, poolVars, pureVars, redirVars, concVars, regVars, cancelVars, groundVars, pairVars, walkVars, emitVars>>
poolFrame == <<streamVars, buildVars, pureVars, redirVars, concVars, regVars, cancelVars, groundVars, pairVars, walkVars, emitVars>>
pureFrame == <<streamVars, buildVars, poolVars, redirVars, concVars, regVars, cancelVars, groundVars, pairVars, walkVars, emitVars>>
redirFrame == <<streamVars, buildVars, poolVars, pureVars, concVars, regVars, cancelVars, groundVars, pairVars, walkVars, emitVars>>
concFrame == <<streamVars, buildVars, poolVars, pureVars, redirVars, regVars, cancelVars, groundVars, pairVars, walkVars, emitVars>>
regFrame == <<streamVars, buildVars, poolVars, pureVars, redirVars, concVars, cancelVars, groundVars, pairVars, walkVars, emitVars>>
cancelFrame == <<streamVars, buildVars, poolVars, pureVars, redirVars, concVars, regVars, groundVars, pairVars, walkVars, emitVars>>
groundFrame == <<streamVars, buildVars, poolVars, pureVars, redirVars, concVars, regVars, cancelVars, pairVars, walkVars, emitVars>>
pairFrame == <<streamVars, buildVars, poolVars, pureVars, redirVars, concVars, regVars, cancelVars, groundVars, walkVars, emitVars>>
walkFrame == <<streamVars, buildVars, poolVars, pureVars, redirVars, concVars, regVars, cancelVars, groundVars, pairVars, emitVars>>
emitFrame == <<streamVars, buildVars, poolVars, pureVars, redirVars, concVars, regVars, cancelVars, groundVars, pairVars, walkVars>>

\* ------------------------------------------------------------------ bounds
MaxLines == 2
MaxErrLines == 1
MaxMsgs == 2

\* ------------------------------------------------------------- byte layer
NL == "NL"
Marker == "data:"

LThought == <<Marker, "T", NL, NL>>
LText == <<Marker, "X", "C3", "A9", "Q", NL>>
LCall == <<Marker, "F1", NL>>
LCallFinish == <<Marker, "F2", "R", NL>>
LFinish == <<Marker, "R", NL>>
LTextMax == <<Marker, "X", "a", "Q", "M", NL>>
LCorrupt == <<Marker, "X", "a", NL>>

LineSet == {LThought, LText, LCall, LCallFinish, LFinish, LTextMax, LCorrupt}

RECURSIVE BodiesOfLen(_)
BodiesOfLen(n) ==
    IF n = 0 THEN {<< >>}
    ELSE {b \o l : b \in BodiesOfLen(n - 1), l \in LineSet}

Bodies == UNION {BodiesOfLen(k) : k \in 0..MaxLines}
ErrBodies == UNION {BodiesOfLen(k) : k \in 0..MaxErrLines}

Statuses == {"200", "201", "403", "500"}
IsSuccess2xx(s) == s \in {"200", "201"}

Tokens == {"A"}
NoToken == "null"

\* chunk.toString(): UTF-8 decoding of the bytes of ONE chunk.  A lead byte
\* without its continuation byte, and a continuation byte without its lead
\* byte, decode to U+FFFD.
RECURSIVE toString(_)
toString(bytes) ==
    IF bytes = << >> THEN << >>
    ELSE IF Head(bytes) = "C3"
         THEN IF Len(bytes) >= 2 /\ bytes[2] = "A9"
              THEN <<"E9">> \o toString(SubSeq(bytes, 3, Len(bytes)))
              ELSE <<"FFFD">> \o toString(Tail(bytes))
         ELSE IF Head(bytes) = "A9"
              THEN <<"FFFD">> \o toString(Tail(bytes))
              ELSE <<Head(bytes)>> \o toString(Tail(bytes))

\* String.prototype.split('\n')
RECURSIVE split(_)
split(s) ==
    IF \A i \in 1..Len(s) : s[i] # NL THEN <<s>>
    ELSE LET i == CHOOSE k \in 1..Len(s) :
                      s[k] = NL /\ \A j \in 1..(k - 1) : s[j] # NL
         IN <<SubSeq(s, 1, i - 1)>> \o split(SubSeq(s, i + 1, Len(s)))

\* ------------------------------------------------- streaming interpreter
Chars == {"a", "E9", "FFFD"}

FunctionCallOf(tok) ==
    IF tok = "F1"
    THEN [id |-> "call_1", name |-> "get_weather", args |-> "{city}"]
    ELSE [id |-> "call_2", name |-> "get_time", args |-> "{}"]

NoCall == [id |-> "", name |-> "", args |-> ""]
ThoughtPart == [kind |-> "thought", text |-> <<"t">>, functionCall |-> NoCall]
TextPart(chars) == [kind |-> "text", text |-> chars, functionCall |-> NoCall]
CallPart(tok) ==
    [kind |-> "functionCall", text |-> << >>, functionCall |-> FunctionCallOf(tok)]

InvalidJSON == [ok |-> FALSE, parts |-> << >>, finishReason |-> "none"]

\* JSON.parse(line.slice(6)) followed by the reads of
\* data.response.candidates[0].content.parts and .finishReason: the envelope
\* is a list of parts, then at most one finishReason; a text part left open
\* and an empty payload are syntax errors.
RECURSIVE JSONparseFrom(_, _)
JSONparseFrom(s, acc) ==
    IF s = << >> THEN [ok |-> TRUE, parts |-> acc, finishReason |-> "none"]
    ELSE CASE Head(s) = "T" -> JSONparseFrom(Tail(s), Append(acc, ThoughtPart))
           [] Head(s) \in {"F1", "F2"} ->
                  JSONparseFrom(Tail(s), Append(acc, CallPart(Head(s))))
           [] Head(s) = "X" ->
                  IF \E q \in 2..Len(s) :
                         s[q] = "Q" /\ \A j \in 2..(q - 1) : s[j] \in Chars
                  THEN LET q == CHOOSE k \in 2..Len(s) :
                                    s[k] = "Q" /\ \A j \in 2..(k - 1) : s[j] \in Chars
                       IN JSONparseFrom(SubSeq(s, q + 1, Len(s)),
                                        Append(acc, TextPart(SubSeq(s, 2, q - 1))))
                  ELSE InvalidJSON
           [] Head(s) = "R" ->
                  IF Len(s) = 1
                  THEN [ok |-> TRUE, parts |-> acc, finishReason |-> "STOP"]
                  ELSE InvalidJSON
           [] Head(s) = "M" ->
                  IF Len(s) = 1
                  THEN [ok |-> TRUE, parts |-> acc, finishReason |-> "MAX_TOKENS"]
                  ELSE InvalidJSON
           [] OTHER -> InvalidJSON

JSONparse(s) == IF s = << >> THEN InvalidJSON ELSE JSONparseFrom(s, << >>)

\* JSON.stringify of an object, and JSON.parse of such a string
JSONstringify(args) == <<"json", args>>
JSONparseValue(str) == str[2]

convertToToolCall(functionCall) ==
    [id |-> functionCall.id,
     type |-> "function",
     name |-> functionCall.name,
     arguments |-> JSONstringify(functionCall.args)]

ThinkStart == [type |-> "thinking", content |-> <<"<think>">>, tool_calls |-> << >>]
ThinkEnd == [type |-> "thinking", content |-> <<"</think>">>, tool_calls |-> << >>]
ThinkDelta(text) == [type |-> "thinking", content |-> text, tool_calls |-> << >>]
TextEvent(text) == [type |-> "text", content |-> text, tool_calls |-> << >>]
ToolCallsEvent(calls) == [type |-> "tool_calls", content |-> << >>, tool_calls |-> calls]

\* emitPart without the close of an open thinking block before a text event
emitPartNoClose(st, part) ==
    IF part.kind = "thought"
    THEN [st EXCEPT
            !.out = @ \o (IF st.thinkingStarted THEN << >> ELSE <<ThinkStart>>)
                      \o <<ThinkDelta(part.text)>>,
            !.thinkingStarted = TRUE]
    ELSE IF part.kind = "text"
    THEN [st EXCEPT !.out = @ \o <<TextEvent(part.text)>>]
    ELSE [st EXCEPT !.toolCalls = Append(@, convertToToolCall(part.functionCall))]

\* One iteration of the loop over parts.  st = [thinkingStarted, toolCalls,
\* out], out being the events handed to the callback so far.
emitPart(st, part) ==
    IF part.kind = "thought"
    THEN [st EXCEPT
            !.out = @ \o (IF st.thinkingStarted THEN << >> ELSE <<ThinkStart>>)
                      \o <<ThinkDelta(part.text)>>,
            !.thinkingStarted = TRUE]
    ELSE IF part.kind = "text"
    THEN [st EXCEPT
            !.out = @ \o (IF st.thinkingStarted THEN <<ThinkEnd>> ELSE << >>)
                      \o <<TextEvent(part.text)>>,
            !.thinkingStarted = FALSE]
    ELSE [st EXCEPT !.toolCalls = Append(@, convertToToolCall(part.functionCall))]

RECURSIVE emitParts(_, _)
emitParts(st, parts) ==
    IF parts = << >> THEN st
    ELSE emitParts(emitPart(st, Head(parts)), Tail(parts))

\* flushToolCalls without the test of the finishReason
flushToolCallsAlways(st, finishReason) ==
    IF Len(st.toolCalls) > 0
    THEN [thinkingStarted |-> FALSE,
          toolCalls |-> << >>,
          out |-> st.out \o (IF st.thinkingStarted THEN <<ThinkEnd>> ELSE << >>)
                         \o <<ToolCallsEvent(st.toolCalls)>>]
    ELSE st

\* a flush that leaves the pending list as it is
flushToolCallsKeepPending(st, finishReason) ==
    IF finishReason # "none" /\ Len(st.toolCalls) > 0
    THEN [thinkingStarted |-> FALSE,
          toolCalls |-> st.toolCalls,
          out |-> st.out \o (IF st.thinkingStarted THEN <<ThinkEnd>> ELSE << >>)
                         \o <<ToolCallsEvent(st.toolCalls)>>]
    ELSE st

\* The flush at the end of the response.
flushToolCalls(st, finishReason) ==
    IF finishReason # "none" /\ Len(st.toolCalls) > 0
    THEN [thinkingStarted |-> FALSE,
          toolCalls |-> << >>,
          out |-> st.out \o (IF st.thinkingStarted THEN <<ThinkEnd>> ELSE << >>)
                         \o <<ToolCallsEvent(st.toolCalls)>>]
    ELSE st

startsWithData(line) == Len(line) >= 1 /\ line[1] = Marker

\* an interpreter that gives up on a line it cannot parse: it reports the
\* failure and drops the state of the stream
parseAndEmitStreamChunkAbort(line, st) ==
    IF ~startsWithData(line) THEN st
    ELSE LET data == JSONparse(Tail(line))
         IN IF ~data.ok
            THEN [thinkingStarted |-> FALSE, toolCalls |-> << >>,
                  out |-> Append(st.out, TextEvent(<<"error">>))]
            ELSE flushToolCalls(emitParts(st, data.parts), data.finishReason)

parseAndEmitStreamChunk(line, st) ==
    IF ~startsWithData(line) THEN st
    ELSE LET data == JSONparse(Tail(line))
         IN IF ~data.ok THEN st
            ELSE flushToolCalls(emitParts(st, data.parts), data.finishReason)

RECURSIVE forEachLine(_, _)
forEachLine(lines, st) ==
    IF lines = << >> THEN st
    ELSE forEachLine(Tail(lines), parseAndEmitStreamChunk(Head(lines), st))

\* processChunk: cx = [buffer, thinkingStarted, toolCalls, out]
processChunk(cx, chunk) ==
    LET lines == split(cx.buffer \o chunk)
        n == Len(lines)
        st == forEachLine(SubSeq(lines, 1, n - 1),
                          [thinkingStarted |-> cx.thinkingStarted,
                           toolCalls |-> cx.toolCalls,
                           out |-> cx.out])
    IN [buffer |-> lines[n],
        thinkingStarted |-> st.thinkingStarted,
        toolCalls |-> st.toolCalls,
        out |-> st.out]

InitCx == [buffer |-> << >>, thinkingStarted |-> FALSE, toolCalls |-> << >>, out |-> << >>]

\* ------------------------------------------------------ client response
ChunkFrame(ev) ==
    [kind |-> "chunk", content |-> ev.content, tool_calls |-> ev.tool_calls,
     finish_reason |-> "null"]
FinalFrame(finish_reason) ==
    [kind |-> "chunk", content |-> << >>, tool_calls |-> << >>,
     finish_reason |-> finish_reason]
DoneFrame ==
    [kind |-> "DONE", content |-> << >>, tool_calls |-> << >>, finish_reason |-> "null"]

RECURSIVE frames(_)
frames(evs) ==
    IF evs = << >> THEN << >> ELSE <<ChunkFrame(Head(evs))>> \o frames(Tail(evs))

endStream(r, finish_reason) == r \o <<FinalFrame(finish_reason), DoneFrame>>

headersSent == Len(res) > 0

\* ------------------------------------------------------------- errors
NoError == [kind |-> "none", status |-> "", body |-> << >>]
NoStatus == ""
NoRejection ==
    [respPresent |-> FALSE, respStatus |-> NoStatus, readable |-> FALSE,
     status |-> NoStatus, message |-> << >>]
\* axios rejects a response whose status is not 2xx; with responseType
\* 'stream' its data is a readable stream
AxiosStatusError(s) ==
    [respPresent |-> TRUE, respStatus |-> s, readable |-> TRUE,
     status |-> NoStatus, message |-> <<"Request failed">>]
\* a connection failure, or an 'error' event of the response stream
NetworkError ==
    [respPresent |-> FALSE, respStatus |-> NoStatus, readable |-> FALSE,
     status |-> NoStatus, message |-> <<"socket hang up">>]
\* reject({ status: statusCode, message: errorBody })
RequesterStatusError(s, msg) ==
    [respPresent |-> FALSE, respStatus |-> NoStatus, readable |-> FALSE,
     status |-> s, message |-> msg]

\* error.response?.status || error.status || 'Unknown'
statusOf(e) ==
    IF e.respPresent /\ e.respStatus # NoStatus THEN e.respStatus
    ELSE IF e.status # NoStatus THEN e.status
    ELSE "Unknown"

disableCurrentToken(t) == disabled \cup {t}

\* the end of handleApiError: the 403 test and the two throws
throwApiError(st, errBody) ==
    IF st = "403"
    THEN /\ disabled' = disableCurrentToken(token)
         /\ thrown' = [kind |-> "disabled", status |-> st, body |-> errBody]
    ELSE /\ disabled' = disabled
         /\ thrown' = [kind |-> "api_failed", status |-> st, body |-> errBody]

\* ------------------------------------------------------------ actions
NoEntry == [present |-> FALSE, signature |-> "null", content |-> << >>]

BuildIdle ==
    /\ bpc = "off"
    /\ enableThinking = FALSE
    /\ useFallbackSignature = FALSE
    /\ cachedEntry = NoEntry
    /\ hasTools = FALSE
    /\ claudeMessages = << >>
    /\ antigravityMessages = << >>
    /\ toolNameMap = {}
    /\ delivered = << >>

\* ---- the account pool and its clients ----
Clients == {1, 2}
Accounts == {"A", "B"}

IdleCall ==
    [pc |-> "idle", op |-> "none", token |-> NoToken, status |-> NoStatus,
     selections |-> 0, requests |-> 0, events |-> 0, thrown |-> "none",
     disables |-> 0, afterRejection |-> FALSE]

PoolIdle ==
    /\ useNativeAxios = FALSE
    /\ enabled = {}
    /\ clientCalls = [c \in Clients |-> IdleCall]
    /\ sent = << >>
    /\ rejected = {}
    /\ started = 0

\* ---- JavaScript values handed to the pure functions ----
\* a value read where a list is expected: undefined, a value that is no
\* array, or an array of some length
Missing == [kind |-> "undefined", length |-> 0]
NotArray == [kind |-> "string", length |-> 1]
Arr(n) == [kind |-> "array", length |-> n]

NoMeta == [kind |-> "undefined", webSearchQueries |-> Missing,
           groundingChunks |-> Missing, groundingSupports |-> Missing]
NoCandidate == [kind |-> "undefined", groundingMetadata |-> NoMeta,
                groundingChunks |-> Missing, groundingSupports |-> Missing]
NoResult == [set |-> FALSE, value |-> FALSE]

\* claudeTools undefined; a generationConfig without candidateCount
NoTools == [isArray |-> FALSE, list |-> << >>]
NoParameters == [candidateCount |-> 0]
NoRequestBody ==
    [set |-> FALSE, model |-> "", requestType |-> "", tools |-> << >>,
     toolConfig |-> "none", generationConfig |-> NoParameters]

\* no system prompt configured or sent, none built
NoSystemPromptConfig ==
    [officialSystemPrompt |-> << >>, systemInstruction |-> << >>,
     useContextSystemPrompt |-> FALSE, officialPromptPosition |-> "before",
     mergeSystemPrompt |-> FALSE]
NoUserSystemPrompt == [type |-> "undefined", text |-> << >>, parts |-> << >>]
NoSystemInstruction == [set |-> FALSE]

\* the arguments of each pure function when it is not the one applied
CandidateIdle == candidate = NoCandidate
RequestArgsIdle ==
    /\ claudeTools = NoTools
    /\ modelName = ""
    /\ parameters = NoParameters
SystemPromptArgsIdle ==
    /\ systemPromptConfig = NoSystemPromptConfig
    /\ userSystemPrompt = NoUserSystemPrompt
NoPureResult ==
    /\ grounded = NoResult
    /\ requestBody = NoRequestBody
    /\ systemInstruction = NoSystemInstruction

PureIdle ==
    /\ fn = "none"
    /\ CandidateIdle
    /\ RequestArgsIdle
    /\ SystemPromptArgsIdle
    /\ NoPureResult

\* ---- redirect resolution ----
Callers == {1, 2}
\* two Vertex grounding redirect URLs, and a URL that is none
RedirectUrls == {"v1", "v2"}
PlainUrl == "plain"
NoCacheEntry == [kind |-> "none", p |-> 0, v |-> ""]
IdleLookup ==
    [pc |-> "idle", url |-> "", p |-> 0, coalesced |-> FALSE, finalUrl |-> "",
     resultUrl |-> ""]

RedirIdle ==
    /\ resolvedRedirectUrlCache = [u \in RedirectUrls |-> NoCacheEntry]
    /\ otherEntries = 0
    /\ fetches = << >>
    /\ lookups = [c \in Callers |-> IdleLookup]
    /\ lookupsStarted = 0

\* ---- concurrent streamed calls: nothing in flight ----
StreamCallers == {1, 2}
IdleStream ==
    [pc |-> "off", body |-> << >>, pos |-> 0, state |-> 0, events |-> << >>,
     alone |-> InitCx]
ConcIdle ==
    /\ transportIsAxios = FALSE
    /\ streamCalls = [c \in StreamCallers |-> IdleStream]
    /\ heap = << >>

\* ---- tool-name registry: nothing registered ----
Sessions == {"s1", "s2"}
RegIdle ==
    /\ toolNameRegistry = {}
    /\ registeredBy = {}

\* ---- client connection: open ----
CancelIdle == clientGone = FALSE

\* ---- grounded message ----
NoRawJSON == [groundingChunks |-> << >>, groundingSupports |-> << >>, parts |-> << >>]
NoMessage == [set |-> FALSE]
GroundIdle ==
    /\ builder = "none"
    /\ rawJSON = NoRawJSON
    /\ redirectResolves = FALSE
    /\ clientMessage = NoMessage

\* ---- the two transports ----
NoBackendResponse == [status |-> "", body |-> << >>]
PairIdle ==
    /\ backendResponse = NoBackendResponse
    /\ paths = << >>

\* ---- one fetchFinalUrl ----
NoFetchRun ==
    [state |-> "off", url |-> "", current |-> "", i |-> 0, aborted |-> FALSE,
     requests |-> << >>]
WalkIdle == fetchRun = NoFetchRun

\* ---- streamed web-search blocks ----
NoWebSearchState ==
    [contentIndex |-> 0, toolUseId |-> "", results |-> << >>, supports |-> << >>,
     bufferedTextParts |-> << >>]
NoEmitResult == [set |-> FALSE]
EmitIdle ==
    /\ webSearchState = NoWebSearchState
    /\ emitResult = NoEmitResult

\* the state at the call, the body of a 200 response drawn from okBodies
InitOver(okBodies) ==
    /\ pc = "start"
    /\ useAxios \in BOOLEAN
    /\ status \in Statuses
    /\ body \in (IF status = "200" THEN okBodies ELSE ErrBodies)
    /\ pos = 0
    /\ token = NoToken
    /\ disabled = {}
    /\ statusCode = NoStatus
    /\ errorBody = << >>
    /\ buffer = << >>
    /\ state = [thinkingStarted |-> FALSE, toolCalls |-> << >>]
    /\ events = << >>
    /\ hasToolCall = FALSE
    /\ res = << >>
    /\ resEnded = FALSE
    /\ error = NoRejection
    /\ thrown = NoError
    /\ BuildIdle
    /\ PoolIdle
    /\ PureIdle
    /\ RedirIdle
    /\ ConcIdle
    /\ RegIdle
    /\ CancelIdle
    /\ GroundIdle
    /\ PairIdle
    /\ WalkIdle
    /\ EmitIdle

Init == InitOver(Bodies)

\* const token = await tokenManager.getToken(); if (!token) throw ...
GetToken ==
    /\ pc = "start"
    /\ \E t \in Tokens \cup {NoToken} :
          /\ token' = t
          /\ IF t = NoToken
             THEN /\ thrown' = [kind |-> "no_token", status |-> "", body |-> << >>]
                  /\ pc' = "catch"
             ELSE /\ thrown' = thrown
                  /\ pc' = "request"
    /\ UNCHANGED <<useAxios, status, body, pos, disabled, statusCode, errorBody,
                   buffer, state, events, hasToolCall, res, resEnded, error>>
    /\ UNCHANGED streamFrame

\* The backend answers with its status: axios resolves or rejects on it,
\* the requester reports it through onStart.
Respond ==
    /\ pc = "request"
    /\ IF useAxios
       THEN IF IsSuccess2xx(status)
            THEN /\ pc' = "streaming"
                 /\ UNCHANGED <<error, statusCode>>
            ELSE /\ pc' = "handleApiError"
                 /\ error' = AxiosStatusError(status)
                 /\ UNCHANGED statusCode
       ELSE /\ pc' = "streaming"
            /\ statusCode' = status
            /\ UNCHANGED error
    /\ UNCHANGED <<useAxios, status, body, pos, token, disabled, errorBody,
                   buffer, state, events, hasToolCall, res, resEnded, thrown>>
    /\ UNCHANGED streamFrame

\* The request fails before any response.
RequestFails ==
    /\ pc = "request"
    /\ pc' = "handleApiError"
    /\ error' = NetworkError
    /\ UNCHANGED <<useAxios, status, body, pos, token, disabled, statusCode,
                   errorBody, buffer, state, events, hasToolCall, res, resEnded,
                   thrown>>
    /\ UNCHANGED streamFrame

\* position k of the body lies inside a multi-byte character
SplitsCharacter(k) == k >= 1 /\ k < Len(body) /\ body[k] = "C3" /\ body[k + 1] = "A9"

\* One network chunk of n bytes arrives ('data' / onData).  axios hands a
\* Buffer cut at any byte, decoded by chunk.toString(); the requester hands
\* a string, which holds whole characters.
OnData(n) ==
    /\ pc = "streaming"
    /\ pos + n <= Len(body)
    /\ useAxios \/ ~SplitsCharacter(pos + n)
    /\ LET chunk == toString(SubSeq(body, pos + 1, pos + n))
       IN IF ~useAxios /\ statusCode # "200"
          THEN /\ errorBody' = errorBody \o chunk
               /\ UNCHANGED <<buffer, state, events, hasToolCall, res>>
          ELSE LET cx == processChunk([buffer |-> buffer,
                                       thinkingStarted |-> state.thinkingStarted,
                                       toolCalls |-> state.toolCalls,
                                       out |-> << >>], chunk)
               IN /\ buffer' = cx.buffer
                  /\ state' = [thinkingStarted |-> cx.thinkingStarted,
                               toolCalls |-> cx.toolCalls]
                  /\ events' = events \o cx.out
                  /\ res' = res \o frames(cx.out)
                  /\ hasToolCall' = (hasToolCall \/
                        \E i \in 1..Len(cx.out) : cx.out[i].type = "tool_calls")
                  /\ UNCHANGED errorBody
    /\ pos' = pos + n
    /\ UNCHANGED <<pc, useAxios, status, body, token, disabled, statusCode,
                   resEnded, error, thrown>>
    /\ UNCHANGED streamFrame

\* The response stream ends ('end' / onEnd).
OnEnd ==
    /\ pc = "streaming"
    /\ pos = Len(body)
    /\ IF ~useAxios /\ statusCode # "200"
       THEN /\ error' = RequesterStatusError(statusCode, errorBody)
            /\ pc' = "handleApiError"
       ELSE /\ error' = error
            /\ pc' = "ended"
    /\ UNCHANGED <<useAxios, status, body, pos, token, disabled, statusCode,
                   errorBody, buffer, state, events, hasToolCall, res, resEnded,
                   thrown>>
    /\ UNCHANGED streamFrame

\* The response stream fails ('error' / onError).
OnError ==
    /\ pc = "streaming"
    /\ error' = NetworkError
    /\ pc' = "handleApiError"
    /\ UNCHANGED <<useAxios, status, body, pos, token, disabled, statusCode,
                   errorBody, buffer, state, events, hasToolCall, res, resEnded,
                   thrown>>
    /\ UNCHANGED streamFrame

\* handleApiError up to its first await: a readable error.response.data is
\* read to its end before the status is tested.
handleApiError ==
    /\ pc = "handleApiError"
    /\ IF error.respPresent /\ error.readable
       THEN /\ pc' = "readErrorBody"
            /\ UNCHANGED <<disabled, thrown>>
       ELSE /\ pc' = "catch"
            /\ throwApiError(statusOf(error), error.message)
    /\ UNCHANGED <<useAxios, status, body, pos, token, statusCode, errorBody,
                   buffer, state, events, hasToolCall, res, resEnded, error>>
    /\ UNCHANGED streamFrame

\* for await (const chunk of error.response.data) completes
ErrorBodyRead ==
    /\ pc = "readErrorBody"
    /\ pc' = "catch"
    /\ throwApiError(statusOf(error), toString(body))
    /\ UNCHANGED <<useAxios, status, body, pos, token, statusCode, errorBody,
                   buffer, state, events, hasToolCall, res, resEnded, error>>
    /\ UNCHANGED streamFrame

\* for await (const chunk of error.response.data) throws: the stream of
\* the error body fails, and handleApiError rejects with that failure.
ErrorBodyFails ==
    /\ pc = "readErrorBody"
    /\ pc' = "catch"
    /\ thrown' = [kind |-> "stream_error", status |-> "", body |-> <<"aborted">>]
    /\ UNCHANGED <<useAxios, status, body, pos, token, disabled, statusCode,
                   errorBody, buffer, state, events, hasToolCall, res, resEnded,
                   error>>
    /\ UNCHANGED streamFrame

\* endStream(res, id, created, model, hasToolCall ? 'tool_calls' : 'stop')
RouteEnd ==
    /\ pc = "ended"
    /\ res' = endStream(res, IF hasToolCall THEN "tool_calls" ELSE "stop")
    /\ resEnded' = TRUE
    /\ pc' = "done"
    /\ UNCHANGED <<useAxios, status, body, pos, token, disabled, statusCode,
                   errorBody, buffer, state, events, hasToolCall, error, thrown>>
    /\ UNCHANGED streamFrame

ErrorFrame(e) ==
    [kind |-> "chunk", content |-> <<"error", e.kind, e.status>> \o e.body,
     tool_calls |-> << >>, finish_reason |-> "null"]

\* the catch block of the route, stream = true
RouteCatch ==
    /\ pc = "catch"
    /\ IF ~headersSent
       THEN /\ res' = endStream(res \o <<ErrorFrame(thrown)>>, "stop")
            /\ resEnded' = TRUE
       ELSE UNCHANGED <<res, resEnded>>
    /\ pc' = "done"
    /\ UNCHANGED <<useAxios, status, body, pos, token, disabled, statusCode,
                   errorBody, buffer, state, events, hasToolCall, error, thrown>>
    /\ UNCHANGED streamFrame

Next ==
    \/ GetToken
    \/ Respond
    \/ RequestFails
    \/ \E n \in 1..Len(body) : OnData(n)
    \/ OnEnd
    \/ OnError
    \/ handleApiError
    \/ ErrorBodyRead
    \/ ErrorBodyFails
    \/ RouteEnd
    \/ RouteCatch

Spec == Init /\ [][Next]_vars

\* =====================================================================
\* Properties of the streamed request (Spec)
\* =====================================================================

\* the callback has been fed by processChunk (not by the error-body branch)
Interpreting == pc # "start" /\ pc # "request" /\ (useAxios \/ statusCode = "200")

\* the bytes delivered so far, decoded as one piece
WholeText == toString(SubSeq(body, 1, pos))
\* the complete lines among them
CompleteLines == LET ls == split(WholeText) IN SubSeq(ls, 1, Len(ls) - 1)

\* C1: chunk-boundary independence.  However the bytes delivered so far were
\* cut into chunks, the callback has received the events it receives when
\* the same bytes arrive as one chunk.
C1_ChunkBoundaryIndependence ==
    Interpreting =>
        events = processChunk(InitCx, toString(SubSeq(body, 1, pos))).out

\* C6: thinking and answer never interleave.  Reading the events in order:
\* a thinking-start marker comes only while no block is open, a thinking
\* delta and the end marker only while one is open, a text or tool_calls
\* event only while none is open; the flag of the stream state is the
\* block's state after the last event.
RECURSIVE ScanThinking(_, _)
ScanThinking(evs, open) ==
    IF evs = << >> THEN [ok |-> TRUE, open |-> open]
    ELSE LET e == Head(evs)
         IN IF e = ThinkStart
            THEN IF open THEN [ok |-> FALSE, open |-> open]
                 ELSE ScanThinking(Tail(evs), TRUE)
            ELSE IF e = ThinkEnd
            THEN IF open THEN ScanThinking(Tail(evs), FALSE)
                 ELSE [ok |-> FALSE, open |-> open]
            ELSE IF e.type = "thinking"
            THEN IF open THEN ScanThinking(Tail(evs), open)
                 ELSE [ok |-> FALSE, open |-> open]
            ELSE IF open THEN [ok |-> FALSE, open |-> open]
                 ELSE ScanThinking(Tail(evs), open)

C6_NoInterleaving ==
    LET r == ScanThinking(events, FALSE)
    IN r.ok /\ r.open = state.thinkingStarted

\* a thinking block was opened, closed, and text or tool calls followed it
C6_Witness ==
    \E i, j, k \in 1..Len(events) :
        /\ i < j /\ j < k
        /\ events[i] = ThinkStart
        /\ events[j] = ThinkEnd
        /\ events[k].type \in {"text", "tool_calls"}

\* C7: function calls are buffered and flushed on a finish signal.  Going
\* through the complete data lines received: a valid envelope adds its
\* function calls to the pending list, and only an envelope with a
\* finishReason, and a non-empty pending list, gives one tool_calls event
\* holding the whole list in arrival order, and empties it.
RECURSIVE callsOf(_)
callsOf(parts) ==
    IF parts = << >> THEN << >>
    ELSE (IF Head(parts).kind = "functionCall"
          THEN <<convertToToolCall(Head(parts).functionCall)>>
          ELSE << >>) \o callsOf(Tail(parts))

RECURSIVE ExpectedFlushes(_, _, _)
ExpectedFlushes(lines, pending, groups) ==
    IF lines = << >> THEN [groups |-> groups, pending |-> pending]
    ELSE LET data == IF startsWithData(Head(lines))
                     THEN JSONparse(Tail(Head(lines)))
                     ELSE InvalidJSON
             p2 == pending \o callsOf(data.parts)
         IN IF data.ok /\ data.finishReason # "none" /\ p2 # << >>
            THEN ExpectedFlushes(Tail(lines), << >>, Append(groups, p2))
            ELSE ExpectedFlushes(Tail(lines), p2, groups)

RECURSIVE ToolCallGroups(_)
ToolCallGroups(evs) ==
    IF evs = << >> THEN << >>
    ELSE (IF Head(evs).type = "tool_calls" THEN <<Head(evs).tool_calls>> ELSE << >>)
         \o ToolCallGroups(Tail(evs))

C7_ToolCallsFlushedOnFinish ==
    Interpreting =>
        [groups |-> ToolCallGroups(events), pending |-> state.toolCalls]
            = ExpectedFlushes(CompleteLines, << >>, << >>)

\* a call that arrived without a finish signal was flushed, together with
\* a later one, by the envelope that carried the signal
C7_Witness ==
    \E i \in 1..Len(events) :
        /\ events[i].type = "tool_calls"
        /\ Len(events[i].tool_calls) = 2
        /\ events[i].tool_calls[1].id = "call_1"
        /\ events[i].tool_calls[2].id = "call_2"

\* C8: the final stop chunk.  When the stream has ended normally, exactly
\* one chunk with a finish_reason was written, and the reason is tool_calls
\* if a tool_calls event was emitted, else max_tokens if the last finish
\* signal of the backend was MAX_TOKENS, else stop.
RECURSIVE LastFinish(_, _)
LastFinish(lines, last) ==
    IF lines = << >> THEN last
    ELSE LET data == IF startsWithData(Head(lines))
                     THEN JSONparse(Tail(Head(lines)))
                     ELSE InvalidJSON
         IN LastFinish(Tail(lines),
                       IF data.ok /\ data.finishReason # "none"
                       THEN data.finishReason ELSE last)

FinalFrames == {i \in 1..Len(res) : res[i].finish_reason # "null"}

C8_FinalStopReason ==
    (pc = "done" /\ thrown = NoError) =>
        /\ Cardinality(FinalFrames) = 1
        /\ \A i \in FinalFrames :
              res[i].finish_reason =
                  IF \E k \in 1..Len(events) : events[k].type = "tool_calls"
                  THEN "tool_calls"
                  ELSE IF LastFinish(CompleteLines, "none") = "MAX_TOKENS"
                       THEN "max_tokens"
                       ELSE "stop"

\* C9: every streamed response is terminated.  When the route handler has
\* finished, whatever the outcome of the backend call, the last frame
\* written is 'data: [DONE]' and the response was ended.
C9_StreamTerminated ==
    pc = "done" =>
        /\ resEnded
        /\ Len(res) > 0
        /\ res[Len(res)] = DoneFrame

\* C10: handleApiError and the 403 status.  After handleApiError has thrown:
\* if the status of the failed request is 403, the token of the request was
\* disabled and the error carries the response body; otherwise no token was
\* disabled and the error carries the status and the body.
ErrorBodyOf(e) == IF e.respPresent /\ e.readable THEN toString(body) ELSE e.message

C10_DisableExactlyOn403 ==
    (pc \in {"catch", "done"} /\ error # NoRejection) =>
        IF statusOf(error) = "403"
        THEN /\ disabled = {token}
             /\ thrown.kind = "disabled"
             /\ thrown.body = ErrorBodyOf(error)
        ELSE /\ disabled = {}
             /\ thrown.kind = "api_failed"
             /\ thrown.status = statusOf(error)
             /\ thrown.body = ErrorBodyOf(error)

\* C14: a corrupt data line is skipped.  A complete line that starts with
\* the marker and is not valid JSON emits nothing and leaves thinkingStarted
\* and the pending tool calls as they are, in every state the stream can be
\* in; and the events and the stream state are those of the same lines
\* with the corrupt ones taken out.  (The second part is stated where the
\* decoding of the text does not depend on the chunking: on the requester
\* transport, and for bodies of one-byte characters.)
CorruptLines == {<<Marker, "X", "a">>, <<Marker>>, <<Marker, "R", "T">>}
IsCorrupt(line) == startsWithData(line) /\ ~JSONparse(Tail(line)).ok
GoodLines(lines) == SelectSeq(lines, LAMBDA l : ~IsCorrupt(l))
CorruptAt == {i \in 1..Len(CompleteLines) : IsCorrupt(CompleteLines[i])}

C14_CorruptLineSkipped ==
    Interpreting =>
        LET st == [thinkingStarted |-> state.thinkingStarted,
                   toolCalls |-> state.toolCalls, out |-> events]
            expected == forEachLine(GoodLines(CompleteLines),
                                    [thinkingStarted |-> FALSE, toolCalls |-> << >>,
                                     out |-> << >>])
        IN /\ \A l \in CorruptLines : parseAndEmitStreamChunk(l, st) = st
           /\ (~useAxios \/ \A i \in 1..Len(body) : body[i] # "C3") => st = expected

\* a corrupt line came first, and the line after it gave its events
C14_Witness ==
    /\ Interpreting
    /\ \E i \in CorruptAt : \E j \in 1..Len(CompleteLines) :
           j > i /\ ~IsCorrupt(CompleteLines[j])
    /\ events # << >>

\* the function calls received: those of the valid envelopes among the
\* complete data lines, in arrival order
RECURSIVE ReceivedCalls(_)
ReceivedCalls(lines) ==
    IF lines = << >> THEN << >>
    ELSE LET data == IF startsWithData(Head(lines))
                     THEN JSONparse(Tail(Head(lines)))
                     ELSE InvalidJSON
         IN (IF data.ok THEN callsOf(data.parts) ELSE << >>)
            \o ReceivedCalls(Tail(lines))

\* the tool calls of the tool_calls events, in the order delivered
RECURSIVE DeliveredCalls(_)
DeliveredCalls(evs) ==
    IF evs = << >> THEN << >>
    ELSE (IF Head(evs).type = "tool_calls" THEN Head(evs).tool_calls ELSE << >>)
         \o DeliveredCalls(Tail(evs))

\* the stream has ended normally and the final frames were written
EndedNormally == pc = "done" /\ thrown = NoError

\* C34: every function call received in a stream that ends normally has
\* been delivered in a tool_calls event, and the frames of those events
\* precede the final stop chunk, wherever the finish signal came or not.
C34_EveryToolCallDelivered ==
    EndedNormally =>
        /\ DeliveredCalls(events) = ReceivedCalls(CompleteLines)
        /\ \A i \in 1..Len(res) : \A j \in FinalFrames :
               res[i].tool_calls # << >> => i < j

\* C35: no tool call is delivered twice.  The calls delivered so far,
\* followed by the pending ones, are the calls received, each once and in
\* arrival order, however many envelopes carried a finishReason.
C35_NoToolCallDeliveredTwice ==
    Interpreting =>
        DeliveredCalls(events) \o state.toolCalls = ReceivedCalls(CompleteLines)

\* two finish signals, each after a function call: two tool_calls events
\* of one call each
C35_Witness ==
    /\ Interpreting
    /\ Len(ToolCallGroups(events)) = 2
    /\ Len(DeliveredCalls(events)) = 2
    /\ state.toolCalls = << >>

\* C36: every thinking block opened in a stream is closed before the final
\* stop chunk: when the stream has ended normally, reading the events in
\* order leaves no thinking block open.
C36_ThinkingClosedAtEnd ==
    EndedNormally => ~ScanThinking(events, FALSE).open

\* ---- a body whose last line is not terminated (TailSpec) ----
\* the bodies of Spec, and the same bodies without their last newline
UnterminatedBodies == {SubSeq(b, 1, Len(b) - 1) : b \in Bodies \ {<< >>}}
TailBodies == Bodies \cup UnterminatedBodies
TailInit == InitOver(TailBodies)
TailSpec == TailInit /\ [][Next]_vars

\* every line of the bytes delivered, the last one terminated or not
AllLines == split(WholeText)

\* C37: no data line of a successful response is lost at the end of the
\* stream.  When generateAssistantResponse has resolved, the events are
\* those of every line of the body interpreted once, in order, the last
\* line included when no newline ends it.  (Stated where the decoding of
\* the text does not depend on the chunking: on the requester transport,
\* and for bodies of one-byte characters.)
C37_NoDataLineLost ==
    (/\ pc \in {"ended", "done"} /\ thrown = NoError /\ error = NoRejection
     /\ (~useAxios \/ \A i \in 1..Len(body) : body[i] # "C3")) =>
        events = forEachLine(AllLines,
                             [thinkingStarted |-> FALSE, toolCalls |-> << >>,
                              out |-> << >>]).out

\* =====================================================================
\* Request builder (BuildSpec)
\* =====================================================================
\* Texts are sequences of characters; Null is null/undefined, and Null and
\* the empty string are the falsy strings.
Null == "null"
Truthy(x) == x # Null /\ x # ""
Or(a, b) == IF Truthy(a) THEN a ELSE b

\* ---- client messages ----
Item(type, text, signature, id, name, input) ==
    [type |-> type, text |-> text, signature |-> signature, id |-> id,
     name |-> name, input |-> input]
TextItem(text) == Item("text", text, Null, Null, Null, Null)
ThinkingItem(thinking, signature) == Item("thinking", thinking, signature, Null, Null, Null)
ToolUseItem(id, name, signature) == Item("tool_use", << >>, signature, id, name, "{city}")
ToolResultItem(tool_use_id, content) == Item("tool_result", content, Null, tool_use_id, Null, Null)
ImageItem(data) == Item("image", << >>, Null, Null, Null, data)

StringMessage(role, text) == [role |-> role, isString |-> TRUE, text |-> text, items |-> << >>]
ArrayMessage(role, items) == [role |-> role, isString |-> FALSE, text |-> << >>, items |-> items]

AssistantMessages ==
    { StringMessage("assistant", <<"o", "k">>),
      ArrayMessage("assistant", <<ThinkingItem(<<"b", "c">>, "sig1"),
                                  ToolUseItem("t1", "get weather", Null)>>),
      ArrayMessage("assistant", <<ToolUseItem("t1", "get weather", Null)>>),
      ArrayMessage("assistant", <<ThinkingItem(<<"b", "c">>, ""),
                                  TextItem(<<"o", "k", " ">>)>>),
      ArrayMessage("assistant", <<TextItem(<<" ">>)>>),
      ArrayMessage("assistant", <<TextItem(<<"o", "k">>),
                                  ToolUseItem("t2", "get_time", "sigT")>>),
      ArrayMessage("assistant", <<ThinkingItem(<< >>, "sig1")>>) }

UserMessages ==
    { StringMessage("user", <<"h", "i">>),
      StringMessage("user", << >>),
      ArrayMessage("user", <<ToolResultItem("t1", <<"r", "1">>)>>),
      ArrayMessage("user", <<ToolResultItem("t2", <<"r", "2">>),
                             ToolResultItem("t1", <<"r", "1">>)>>),
      ArrayMessage("user", <<TextItem(<<"q">>), ImageItem("png")>>),
      ArrayMessage("user", <<TextItem(<<"q">>), ToolResultItem("t1", <<"r", "1">>)>>) }

\* ---- backend parts ----
Part(kind, text, thoughtSignature, id, name, payload) ==
    [kind |-> kind, text |-> text, thought |-> (kind = "thought"),
     thoughtSignature |-> thoughtSignature, id |-> id, name |-> name,
     payload |-> payload]

\* ---- signatures ----
FallbackThoughtSignature == "fbThought"
FallbackToolSignature == "fbTool"
CachedEntries ==
    { NoEntry,
      [present |-> TRUE, signature |-> "sigC", content |-> <<"c", "c">>],
      [present |-> TRUE, signature |-> "sigC", content |-> << >>] }

Blank == <<" ">>
OrText(t, d) == IF t = << >> THEN d ELSE t

\* a context that never reads the cache
getSignatureContextNoCache ==
    IF useFallbackSignature
    THEN [reasoningSignature |-> FallbackThoughtSignature,
          reasoningContent |-> Blank,
          toolSignature |-> IF hasTools THEN FallbackToolSignature ELSE Null,
          toolContent |-> Blank]
    ELSE [reasoningSignature |-> Null, reasoningContent |-> Blank,
          toolSignature |-> Null, toolContent |-> Blank]

getSignatureContext ==
    IF cachedEntry.present
    THEN [reasoningSignature |-> cachedEntry.signature,
          reasoningContent |-> OrText(cachedEntry.content, Blank),
          toolSignature |-> cachedEntry.signature,
          toolContent |-> OrText(cachedEntry.content, Blank)]
    ELSE IF useFallbackSignature
    THEN [reasoningSignature |-> FallbackThoughtSignature,
          reasoningContent |-> Blank,
          toolSignature |-> IF hasTools THEN FallbackToolSignature ELSE Null,
          toolContent |-> Blank]
    ELSE [reasoningSignature |-> Null, reasoningContent |-> Blank,
          toolSignature |-> Null, toolContent |-> Blank]

\* ---- common.js helpers ----
pushUserMessage(extracted, msgs) ==
    Append(msgs, [role |-> "user",
                  parts |-> <<Part("text", OrText(extracted.text, Blank), Null, Null, Null, Null)>>
                            \o extracted.images])

\* the first functionCall with the id among the parts, or none
RECURSIVE nameInParts(_, _)
nameInParts(toolCallId, parts) ==
    IF parts = << >> THEN [found |-> FALSE, name |-> ""]
    ELSE IF Head(parts).kind = "functionCall" /\ Head(parts).id = toolCallId
         THEN [found |-> TRUE, name |-> Head(parts).name]
         ELSE nameInParts(toolCallId, Tail(parts))

RECURSIVE findFrom(_, _, _)
findFrom(toolCallId, msgs, i) ==
    IF i < 1 THEN ""
    ELSE LET r == IF msgs[i].role = "model"
                  THEN nameInParts(toolCallId, msgs[i].parts)
                  ELSE [found |-> FALSE, name |-> ""]
         IN IF r.found THEN r.name ELSE findFrom(toolCallId, msgs, i - 1)

\* a lookup that never finds the call
findFunctionNameByIdNone(toolCallId, msgs) == ""

findFunctionNameById(toolCallId, msgs) == findFrom(toolCallId, msgs, Len(msgs))

hasFunctionResponse(parts) == \E i \in 1..Len(parts) : parts[i].kind = "functionResponse"

\* a tool output that always opens a turn
pushFunctionResponseNewTurn(toolCallId, functionName, resultContent, msgs) ==
    Append(msgs, [role |-> "user",
                  parts |-> <<Part("functionResponse", << >>, Null, toolCallId,
                                   functionName, resultContent)>>])

pushFunctionResponse(toolCallId, functionName, resultContent, msgs) ==
    LET functionResponse ==
            Part("functionResponse", << >>, Null, toolCallId, functionName, resultContent)
        n == Len(msgs)
    IN IF n > 0 /\ msgs[n].role = "user" /\ hasFunctionResponse(msgs[n].parts)
       THEN [msgs EXCEPT ![n].parts = Append(@, functionResponse)]
       ELSE Append(msgs, [role |-> "user", parts |-> <<functionResponse>>])

createThoughtPart(text, signature) ==
    Part("thought", OrText(text, Blank), IF Truthy(signature) THEN signature ELSE Null,
         Null, Null, Null)

createFunctionCallPart(id, name, args, signature) ==
    Part("functionCall", << >>, IF Truthy(signature) THEN signature ELSE Null,
         id, name, args)

\* the backend-safe identifier of a client tool name
sanitizeToolName(name) ==
    CASE name = "get weather" -> "get_weather"
      [] name = "get.weather" -> "get_weather"
      [] name = "read file" -> "read_file"
      [] name = "read.file" -> "read_file"
      [] name = "read/file" -> "read_file"
      [] OTHER -> name

\* registry written by setToolNameMapping(model, safeName, originalName)
setToolNameMapping(map, safeName, originalName) ==
    {m \in map : m[1] # safeName} \cup {<<safeName, originalName>>}

\* processToolName: the safe name, and the registry after the call
processToolName(originalName, map) ==
    LET safeName == sanitizeToolName(originalName)
    IN [safeName |-> safeName,
        map |-> IF safeName # originalName
                THEN setToolNameMapping(map, safeName, originalName)
                ELSE map]

\* a model message whose tool calls come before its other parts
pushModelMessageCallsFirst(parts, toolCalls, hasContent, msgs) ==
    Append(msgs, [role |-> "model", parts |-> toolCalls \o parts])

pushModelMessage(parts, toolCalls, hasContent, msgs) ==
    LET n == Len(msgs)
        hasToolCalls == Len(toolCalls) > 0
    IN IF n > 0 /\ msgs[n].role = "model" /\ hasToolCalls /\ ~hasContent
       THEN [msgs EXCEPT ![n].parts = @ \o toolCalls]
       ELSE Append(msgs, [role |-> "model", parts |-> parts \o toolCalls])

\* ---- converters/claude.js ----
RECURSIVE textOfType(_, _)
textOfType(items, type) ==
    IF items = << >> THEN << >>
    ELSE (IF Head(items).type = type THEN Head(items).text ELSE << >>)
         \o textOfType(Tail(items), type)

RECURSIVE imagesOf(_)
imagesOf(items) ==
    IF items = << >> THEN << >>
    ELSE (IF Head(items).type = "image" /\ Truthy(Head(items).input)
          THEN <<Part("inlineData", << >>, Null, Null, Null, Head(items).input)>>
          ELSE << >>) \o imagesOf(Tail(items))

extractImagesFromClaudeContent(m) ==
    IF m.isString THEN [text |-> m.text, images |-> << >>]
    ELSE [text |-> textOfType(m.items, "text"), images |-> imagesOf(m.items)]

\* if (!messageSignature && item.signature) messageSignature = item.signature
RECURSIVE messageSignatureOf(_)
messageSignatureOf(items) ==
    IF items = << >> THEN Null
    ELSE IF Head(items).type = "thinking" /\ Truthy(Head(items).signature)
         THEN Head(items).signature
         ELSE messageSignatureOf(Tail(items))

\* the tool_use branch of the loop: acc = [calls, map]
RECURSIVE toolCallsOf(_, _, _)
toolCallsOf(items, ctx, acc) ==
    IF items = << >> THEN acc
    ELSE LET item == Head(items)
         IN IF item.type = "tool_use"
            THEN LET pn == processToolName(item.name, acc.map)
                     signature ==
                         IF enableThinking
                         THEN Or(item.signature, Or(ctx.toolSignature, ctx.reasoningSignature))
                         ELSE Null
                     input == IF Truthy(item.input) THEN item.input ELSE "{}"
                 IN toolCallsOf(Tail(items), ctx,
                        [calls |-> Append(acc.calls,
                                      createFunctionCallPart(item.id, pn.safeName,
                                          JSONparseValue(JSONstringify(input)), signature)),
                         map |-> pn.map])
            ELSE toolCallsOf(Tail(items), ctx, acc)

IsBlank(text) == \A i \in 1..Len(text) : text[i] = " "

RECURSIVE trimEnd(_)
trimEnd(text) ==
    IF text # << >> /\ text[Len(text)] = " "
    THEN trimEnd(SubSeq(text, 1, Len(text) - 1))
    ELSE text

\* a thought part whatever the signature
thoughtPartsUnguarded(signature, thinkingContent, ctx) ==
    <<createThoughtPart(thinkingContent, signature)>>

\* the thought part of an assistant message, thinking enabled
thoughtParts(signature, thinkingContent, ctx) ==
    IF Truthy(signature)
    THEN LET reasoningText ==
                 IF Len(thinkingContent) > 0 THEN thinkingContent
                 ELSE IF signature = ctx.reasoningSignature THEN OrText(ctx.reasoningContent, Blank)
                 ELSE IF signature = ctx.toolSignature THEN OrText(ctx.toolContent, Blank)
                 ELSE Blank
         IN <<createThoughtPart(reasoningText, signature)>>
    ELSE << >>

\* handleClaudeAssistantMessage: [msgs, map] after the call
handleClaudeAssistantMessage(message, msgs, map) ==
    LET ctx == getSignatureContext
        items == IF message.isString THEN << >> ELSE message.items
        textContent == IF message.isString THEN message.text ELSE textOfType(items, "text")
        thinkingContent == textOfType(items, "thinking")
        messageSignature == messageSignatureOf(items)
        tc == toolCallsOf(items, ctx, [calls |-> << >>, map |-> map])
        hasContent == textContent # << >> /\ ~IsBlank(textContent)
        signature == Or(messageSignature, Or(ctx.reasoningSignature, ctx.toolSignature))
        parts == (IF enableThinking
                  THEN thoughtParts(signature, thinkingContent, ctx)
                  ELSE << >>)
                 \o (IF hasContent
                     THEN <<Part("text", trimEnd(textContent), Null, Null, Null, Null)>>
                     ELSE << >>)
    IN [msgs |-> pushModelMessage(parts, tc.calls, hasContent, msgs), map |-> tc.map]

RECURSIVE handleClaudeToolResultFrom(_, _)
handleClaudeToolResultFrom(items, msgs) ==
    IF items = << >> THEN msgs
    ELSE LET item == Head(items)
         IN IF item.type # "tool_result"
            THEN handleClaudeToolResultFrom(Tail(items), msgs)
            ELSE handleClaudeToolResultFrom(Tail(items),
                     pushFunctionResponse(item.id,
                                          findFunctionNameById(item.id, msgs),
                                          item.text, msgs))

handleClaudeToolResult(message, msgs) ==
    IF message.isString THEN msgs ELSE handleClaudeToolResultFrom(message.items, msgs)

hasToolResult(m) ==
    ~m.isString /\ \E i \in 1..Len(m.items) : m.items[i].type = "tool_result"

\* ---- actions of the builder ----
StreamIdle ==
    /\ pc = "off"
    /\ useAxios = FALSE
    /\ status = NoStatus
    /\ body = << >>
    /\ pos = 0
    /\ token = NoToken
    /\ disabled = {}
    /\ statusCode = NoStatus
    /\ errorBody = << >>
    /\ buffer = << >>
    /\ state = [thinkingStarted |-> FALSE, toolCalls |-> << >>]
    /\ events = << >>
    /\ hasToolCall = FALSE
    /\ res = << >>
    /\ resEnded = FALSE
    /\ error = NoRejection
    /\ thrown = NoError

BuildInit ==
    /\ bpc = "building"
    /\ enableThinking \in BOOLEAN
    /\ useFallbackSignature \in BOOLEAN
    /\ cachedEntry \in CachedEntries
    /\ hasTools \in BOOLEAN
    /\ claudeMessages = << >>
    /\ antigravityMessages = << >>
    /\ toolNameMap = {}
    /\ delivered = << >>
    /\ StreamIdle
    /\ PoolIdle
    /\ PureIdle
    /\ RedirIdle
    /\ ConcIdle
    /\ RegIdle
    /\ CancelIdle
    /\ GroundIdle
    /\ PairIdle
    /\ WalkIdle
    /\ EmitIdle

\* claudeMessageToAntigravity, one iteration: a user message without
\* tool results
ConvertUser ==
    /\ bpc = "building"
    /\ Len(claudeMessages) < MaxMsgs
    /\ \E m \in UserMessages :
          /\ ~hasToolResult(m)
          /\ claudeMessages' = Append(claudeMessages, m)
          /\ antigravityMessages' =
                 pushUserMessage(extractImagesFromClaudeContent(m), antigravityMessages)
    /\ UNCHANGED <<bpc, enableThinking, useFallbackSignature, cachedEntry, hasTools,
                   toolNameMap, delivered>>
    /\ UNCHANGED buildFrame

\* one iteration: a user message that holds tool results
ConvertToolResult ==
    /\ bpc = "building"
    /\ Len(claudeMessages) < MaxMsgs
    /\ \E m \in UserMessages :
          /\ hasToolResult(m)
          /\ claudeMessages' = Append(claudeMessages, m)
          /\ antigravityMessages' = handleClaudeToolResult(m, antigravityMessages)
    /\ UNCHANGED <<bpc, enableThinking, useFallbackSignature, cachedEntry, hasTools,
                   toolNameMap, delivered>>
    /\ UNCHANGED buildFrame

\* one iteration: an assistant message
ConvertAssistantWithin(limit) ==
    /\ bpc = "building"
    /\ Len(claudeMessages) < limit
    /\ \E m \in AssistantMessages :
          LET r == handleClaudeAssistantMessage(m, antigravityMessages, toolNameMap)
          IN /\ claudeMessages' = Append(claudeMessages, m)
             /\ antigravityMessages' = r.msgs
             /\ toolNameMap' = r.map
    /\ UNCHANGED <<bpc, enableThinking, useFallbackSignature, cachedEntry, hasTools,
                   delivered>>
    /\ UNCHANGED buildFrame

ConvertAssistant == ConvertAssistantWithin(MaxMsgs)

\* the names of the functionCall parts of the request
RequestedNames ==
    UNION {{antigravityMessages[i].parts[j].name :
               j \in {k \in 1..Len(antigravityMessages[i].parts) :
                         antigravityMessages[i].parts[k].kind = "functionCall"}} :
           i \in 1..Len(antigravityMessages)}

\* The request is sent and the backend answers with a functionCall that
\* names a function of the request; convertToToolCall hands it on.
BackendCall ==
    /\ bpc = "building"
    /\ \E name \in RequestedNames :
          LET functionCall == [id |-> "call_1", name |-> name, args |-> "{city}"]
          IN delivered' = Append(delivered,
                 [functionCall |-> functionCall,
                  toolCall |-> convertToToolCall(functionCall)])
    /\ bpc' = "replied"
    /\ UNCHANGED <<enableThinking, useFallbackSignature, cachedEntry, hasTools,
                   claudeMessages, antigravityMessages, toolNameMap>>
    /\ UNCHANGED buildFrame

BuildNext ==
    \/ ConvertUser
    \/ ConvertToolResult
    \/ ConvertAssistant
    \/ BackendCall

BuildSpec == BuildInit /\ [][BuildNext]_vars

\* A client history of assistant messages only, one more than BuildSpec
\* converts: a model turn, the turn after it, and a message merged into that.
MaxModelMsgs == 3

ConvertNextAssistant == ConvertAssistantWithin(MaxModelMsgs)

ModelTurnSpec == BuildInit /\ [][ConvertNextAssistant]_vars

\* =====================================================================
\* Properties of the request builder (BuildSpec)
\* =====================================================================
PartsAt == UNION {{<<i, j>> : j \in 1..Len(antigravityMessages[i].parts)} :
                     i \in 1..Len(antigravityMessages)}
PartAt(ij) == antigravityMessages[ij[1]].parts[ij[2]]

ItemsAt == UNION {{<<i, k>> : k \in 1..Len(claudeMessages[i].items)} :
                     i \in 1..Len(claudeMessages)}
ItemAt(ik) == claudeMessages[ik[1]].items[ik[2]]
ToolUsesAt == {ik \in ItemsAt : /\ claudeMessages[ik[1]].role = "assistant"
                                /\ ItemAt(ik).type = "tool_use"}

\* C2: every part with thought = true in the built contents carries a
\* non-empty thoughtSignature, for every message list, cache state,
\* thinking flag and fallback setting.
C2_ThoughtHasSignature ==
    \A ij \in PartsAt : PartAt(ij).thought => Truthy(PartAt(ij).thoughtSignature)

\* thought parts are built: one signed by the message, one by the cache
C2_Witness ==
    /\ \E ij \in PartsAt : PartAt(ij).thought /\ PartAt(ij).thoughtSignature = "sig1"
    /\ \E ij \in PartsAt : PartAt(ij).thought /\ PartAt(ij).thoughtSignature = "sigC"

\* C3: one tool call followed by its result.  When the message list holds
\* exactly one assistant tool_use, with id t, and the next message is a user
\* message with a tool_result for t, the contents hold a model turn with a
\* functionCall of id t, and the turn right after it is a user turn with a
\* functionResponse of id t and of the functionCall's name.
CallThenResultAt(i, t) ==
    /\ Cardinality(ToolUsesAt) = 1
    /\ \E ik \in ToolUsesAt : ik[1] = i /\ ItemAt(ik).id = t
    /\ i < Len(claudeMessages)
    /\ claudeMessages[i + 1].role = "user"
    /\ \E ik \in ItemsAt :
          ik[1] = i + 1 /\ ItemAt(ik).type = "tool_result" /\ ItemAt(ik).id = t

C3_ToolResultFollowsCall ==
    \A i \in 1..Len(claudeMessages) : \A t \in {"t1", "t2"} :
        CallThenResultAt(i, t) =>
            \E c \in PartsAt, r \in PartsAt :
                /\ antigravityMessages[c[1]].role = "model"
                /\ PartAt(c).kind = "functionCall"
                /\ PartAt(c).id = t
                /\ r[1] = c[1] + 1
                /\ antigravityMessages[r[1]].role = "user"
                /\ PartAt(r).kind = "functionResponse"
                /\ PartAt(r).id = t
                /\ PartAt(r).name = PartAt(c).name

\* the one tool call was made under a sanitized name and answered
C3_Witness ==
    /\ \E i \in 1..Len(claudeMessages) : CallThenResultAt(i, "t1")
    /\ \E r \in PartsAt : PartAt(r).kind = "functionResponse" /\ PartAt(r).name = "get_weather"

\* C4: tool-name round trip.  When the backend returns a functionCall under
\* the sanitized name of a tool of the request, and no other tool name of
\* the request has the same sanitized name, the tool call handed to the
\* client carries the client's original name.
OriginalNames == {ItemAt(ik).name : ik \in ToolUsesAt}

C4_ToolNameRoundTrip ==
    \A d \in 1..Len(delivered) : \A o \in OriginalNames :
        (/\ sanitizeToolName(o) = delivered[d].functionCall.name
         /\ \A o2 \in OriginalNames : sanitizeToolName(o2) = sanitizeToolName(o) => o2 = o)
        => delivered[d].toolCall.name = o

\* C5: with thinking enabled, a functionCall built from a tool_use that has
\* no signature of its own carries the signature of the thinking segment of
\* its assistant message, whatever the cache and the fallback setting hold.
C5_FunctionCallCarriesThoughtSignature ==
    (/\ enableThinking
     /\ bpc = "building"
     /\ Len(claudeMessages) > 0
     /\ claudeMessages[Len(claudeMessages)].role = "assistant"
     /\ ~claudeMessages[Len(claudeMessages)].isString)
    => LET m == claudeMessages[Len(claudeMessages)]
           turn == antigravityMessages[Len(antigravityMessages)]
       IN Truthy(messageSignatureOf(m.items)) =>
             \A k \in 1..Len(m.items) :
                 (m.items[k].type = "tool_use" /\ ~Truthy(m.items[k].signature)) =>
                     \E j \in 1..Len(turn.parts) :
                         /\ turn.parts[j].kind = "functionCall"
                         /\ turn.parts[j].id = m.items[k].id
                         /\ turn.parts[j].thoughtSignature = messageSignatureOf(m.items)

\* C24: tool outputs.  A message of tool results puts its outputs, in input
\* order, at the end of the last turn when that turn is a user turn that
\* already holds a functionResponse part, and into one new user turn
\* otherwise; the turns before are left as they are, and the turn that takes
\* the outputs holds nothing but functionResponse parts.
RECURSIVE outputsOf(_)
outputsOf(items) ==
    IF items = << >> THEN << >>
    ELSE (IF Head(items).type = "tool_result"
          THEN <<[id |-> Head(items).id, output |-> Head(items).text]>>
          ELSE << >>) \o outputsOf(Tail(items))

RECURSIVE responsesOf(_)
responsesOf(parts) ==
    IF parts = << >> THEN << >>
    ELSE (IF Head(parts).kind = "functionResponse"
          THEN <<[id |-> Head(parts).id, output |-> Head(parts).payload]>>
          ELSE << >>) \o responsesOf(Tail(parts))

OnlyFunctionResponses(turn) ==
    /\ turn.role = "user"
    /\ \A j \in 1..Len(turn.parts) : turn.parts[j].kind = "functionResponse"

PendingToolTurn(msgs) ==
    /\ Len(msgs) > 0
    /\ msgs[Len(msgs)].role = "user"
    /\ \E j \in 1..Len(msgs[Len(msgs)].parts) :
           msgs[Len(msgs)].parts[j].kind = "functionResponse"

C24_ToolOutputsJoinPendingTurn ==
    [][(/\ Len(claudeMessages') = Len(claudeMessages) + 1
        /\ hasToolResult(claudeMessages'[Len(claudeMessages')]))
       => LET n == Len(antigravityMessages)
              outputs == outputsOf(claudeMessages'[Len(claudeMessages')].items)
          IN IF PendingToolTurn(antigravityMessages)
             THEN /\ Len(antigravityMessages') = n
                  /\ SubSeq(antigravityMessages', 1, n - 1) = SubSeq(antigravityMessages, 1, n - 1)
                  /\ OnlyFunctionResponses(antigravityMessages'[n])
                  /\ responsesOf(antigravityMessages'[n].parts) =
                         responsesOf(antigravityMessages[n].parts) \o outputs
             ELSE /\ Len(antigravityMessages') = n + 1
                  /\ SubSeq(antigravityMessages', 1, n) = antigravityMessages
                  /\ OnlyFunctionResponses(antigravityMessages'[n + 1])
                  /\ responsesOf(antigravityMessages'[n + 1].parts) = outputs
      ]_vars

\* two messages of tool results in a row: their three outputs are in one turn
C24_Witness ==
    /\ Len(claudeMessages) = 2
    /\ Len(antigravityMessages) = 1
    /\ Len(antigravityMessages[1].parts) = 3
    /\ OnlyFunctionResponses(antigravityMessages[1])

\* C25: merging of follow-on tool calls.  An assistant message is merged
\* into the last turn exactly when that turn is a model turn and the message
\* has tool calls and no non-blank text: its functionCall parts, and nothing
\* else, are appended to that turn and no turn is opened; in every other
\* case exactly one model turn is appended.  Hence no model turn made only
\* of functionCall parts stands directly after another model turn.
RECURSIVE toolUseIds(_)
toolUseIds(items) ==
    IF items = << >> THEN << >>
    ELSE (IF Head(items).type = "tool_use" THEN <<Head(items).id>> ELSE << >>)
         \o toolUseIds(Tail(items))

RECURSIVE callIds(_)
callIds(parts) ==
    IF parts = << >> THEN << >>
    ELSE (IF Head(parts).kind = "functionCall" THEN <<Head(parts).id>> ELSE << >>)
         \o callIds(Tail(parts))

HasNonBlankText(m) ==
    IF m.isString THEN \E i \in 1..Len(m.text) : m.text[i] # " "
    ELSE \E k \in 1..Len(m.items) :
            /\ m.items[k].type = "text"
            /\ \E i \in 1..Len(m.items[k].text) : m.items[k].text[i] # " "

OnlyFunctionCalls(turn) ==
    /\ Len(turn.parts) > 0
    /\ \A j \in 1..Len(turn.parts) : turn.parts[j].kind = "functionCall"

NoCallOnlyTurnAfterModelTurn ==
    \A i \in 2..Len(antigravityMessages) :
        (antigravityMessages[i].role = "model" /\ antigravityMessages[i - 1].role = "model")
        => ~OnlyFunctionCalls(antigravityMessages[i])

C25_FollowOnToolCallsMerged ==
    [][(/\ Len(claudeMessages') = Len(claudeMessages) + 1
        /\ claudeMessages'[Len(claudeMessages')].role = "assistant")
       => LET n == Len(antigravityMessages)
              m == claudeMessages'[Len(claudeMessages')]
              ids == toolUseIds(m.items)
              merge == /\ n > 0
                       /\ antigravityMessages[n].role = "model"
                       /\ ids # << >>
                       /\ ~HasNonBlankText(m)
          IN /\ IF merge
                THEN /\ Len(antigravityMessages') = n
                     /\ SubSeq(antigravityMessages', 1, n - 1) = SubSeq(antigravityMessages, 1, n - 1)
                     /\ antigravityMessages'[n].role = "model"
                     /\ LET old == antigravityMessages[n].parts
                            new == antigravityMessages'[n].parts
                        IN /\ Len(new) = Len(old) + Len(ids)
                           /\ SubSeq(new, 1, Len(old)) = old
                           /\ OnlyFunctionCalls([parts |-> SubSeq(new, Len(old) + 1, Len(new))])
                           /\ callIds(SubSeq(new, Len(old) + 1, Len(new))) = ids
                ELSE /\ Len(antigravityMessages') = n + 1
                     /\ SubSeq(antigravityMessages', 1, n) = antigravityMessages
                     /\ antigravityMessages'[n + 1].role = "model"
                     /\ callIds(antigravityMessages'[n + 1].parts) = ids
             /\ NoCallOnlyTurnAfterModelTurn'
      ]_vars

\* C26: order of parts.  In every contents list built, the parts of a model
\* turn are ordered thought, then text, then functionCall, also after a
\* follow-on message was merged into it, and a user turn that holds a
\* functionResponse part holds only functionResponse parts.
Rank(part) ==
    CASE part.kind = "thought" -> 1
      [] part.kind = "text" -> 2
      [] part.kind = "functionCall" -> 3
      [] OTHER -> 4

C26_PartsOrdered ==
    \A i \in 1..Len(antigravityMessages) :
        LET turn == antigravityMessages[i]
        IN /\ turn.role = "model" =>
                /\ \A j \in 1..Len(turn.parts) : Rank(turn.parts[j]) <= 3
                /\ \A j \in 1..(Len(turn.parts) - 1) :
                       Rank(turn.parts[j]) <= Rank(turn.parts[j + 1])
           /\ (turn.role = "user" /\ hasFunctionResponse(turn.parts)) =>
                \A j \in 1..Len(turn.parts) : turn.parts[j].kind = "functionResponse"

\* a model turn of thought, text and a functionCall merged in from the
\* next assistant message
C26_Witness ==
    /\ Len(claudeMessages) = 2
    /\ Len(antigravityMessages) = 1
    /\ Len(antigravityMessages[1].parts) = 3
    /\ antigravityMessages[1].parts[1].kind = "thought"
    /\ antigravityMessages[1].parts[2].kind = "text"
    /\ antigravityMessages[1].parts[3].kind = "functionCall"

\* C27: signature continuation.  With thinking enabled, the turn opened for
\* an assistant message starts with one thought part.  When a thinking
\* segment of the message carries a signature, the part has that signature,
\* whatever the cache and the fallback hold.  When none does and the cache
\* holds an entry, the part has the cached signature, and its text is the
\* thinking text the client sent, if any, else the content stored with the
\* cached signature, where a stored content that is empty stands as one
\* blank.
RECURSIVE firstSignature(_)
firstSignature(items) ==
    IF items = << >> THEN Null
    ELSE IF Head(items).type = "thinking" /\ Truthy(Head(items).signature)
         THEN Head(items).signature
         ELSE firstSignature(Tail(items))

RECURSIVE thinkingText(_)
thinkingText(items) ==
    IF items = << >> THEN << >>
    ELSE (IF Head(items).type = "thinking" THEN Head(items).text ELSE << >>)
         \o thinkingText(Tail(items))

\* the step converts an assistant message into a turn of its own
OpensModelTurn ==
    /\ Len(claudeMessages') = Len(claudeMessages) + 1
    /\ claudeMessages'[Len(claudeMessages')].role = "assistant"
    /\ Len(antigravityMessages') = Len(antigravityMessages) + 1

SignatureContinuation(filler(_)) ==
    LET m == claudeMessages'[Len(claudeMessages')]
        turn == antigravityMessages'[Len(antigravityMessages')]
        own == firstSignature(m.items)
    IN (enableThinking /\ (Truthy(own) \/ cachedEntry.present)) =>
          /\ Len(turn.parts) > 0
          /\ turn.parts[1].thought
          /\ \A j \in 2..Len(turn.parts) : ~turn.parts[j].thought
          /\ IF Truthy(own)
             THEN turn.parts[1].thoughtSignature = own
             ELSE /\ turn.parts[1].thoughtSignature = cachedEntry.signature
                  /\ turn.parts[1].text =
                         IF thinkingText(m.items) # << >> THEN thinkingText(m.items)
                         ELSE filler(cachedEntry.content)

StoredOrBlank(content) == IF content = << >> THEN <<" ">> ELSE content
Stored(content) == content

C39_EveryTurnHasAPart ==
    \A i \in 1..Len(antigravityMessages) : Len(antigravityMessages[i].parts) >= 1

\* =====================================================================
\* Concurrent client calls on the account pool (PoolSpec)
\* =====================================================================
MaxCalls == 2

Ops == {"generateAssistantResponse", "generateAssistantResponseNoStream",
        "getAvailableModels"}
PoolStatuses == {"200", "403", "500"}

\* tokenManager.getToken(): an enabled account, or null when none is enabled
getToken == IF enabled = {} THEN {NoToken} ELSE enabled

\* tokenManager.disableCurrentToken(token)
disableCurrentTokenInPool(t) == enabled \ {t}

\* where a call goes after `if (!token) throw`, and after handleApiError
afterNoTokenSend == "request"
afterNoToken == "thrown"
afterFailureRetry == "getToken"
afterFailure == "thrown"

\* The rejection reaches handleApiError only after an await: the readable
\* error body of the streamed axios request, response.text() of the
\* requester, or the onData/onEnd events that follow onStart.
awaitsErrorBody(op) ==
    IF useNativeAxios THEN op = "generateAssistantResponse" ELSE TRUE

PoolInit ==
    /\ useNativeAxios \in BOOLEAN
    /\ enabled \in SUBSET Accounts
    /\ clientCalls = [c \in Clients |-> IdleCall]
    /\ sent = << >>
    /\ rejected = {}
    /\ started = 0
    /\ StreamIdle
    /\ BuildIdle
    /\ PureIdle
    /\ RedirIdle
    /\ ConcIdle
    /\ RegIdle
    /\ CancelIdle
    /\ GroundIdle
    /\ PairIdle
    /\ WalkIdle
    /\ EmitIdle

\* a client call enters one of the three exported functions
Call(c, op) ==
    /\ clientCalls[c].pc = "idle"
    /\ started < MaxCalls
    /\ started' = started + 1
    /\ clientCalls' = [clientCalls EXCEPT ![c] = [IdleCall EXCEPT !.pc = "getToken", !.op = op]]
    /\ UNCHANGED <<useNativeAxios, enabled, sent, rejected>>
    /\ UNCHANGED poolFrame

\* const token = await tokenManager.getToken(); if (!token) throw new Error(...)
PoolGetToken(c) ==
    /\ clientCalls[c].pc = "getToken"
    /\ \E t \in getToken :
          clientCalls' = [clientCalls EXCEPT ![c] =
              [@ EXCEPT !.token = t,
                        !.selections = @ + 1,
                        !.afterRejection = (t \in rejected),
                        !.thrown = IF t = NoToken THEN "no_token" ELSE "none",
                        !.pc = IF t = NoToken THEN afterNoToken ELSE "request"]]
    /\ UNCHANGED <<useNativeAxios, enabled, sent, rejected, started>>
    /\ UNCHANGED poolFrame

\* axios(...) / requester.antigravity_fetch(...) / antigravity_fetchStream(...)
SendRequest(c) ==
    /\ clientCalls[c].pc = "request"
    /\ sent' = Append(sent, [client |-> c, account |-> clientCalls[c].token,
                             afterRejection |-> clientCalls[c].afterRejection])
    /\ clientCalls' = [clientCalls EXCEPT ![c].requests = @ + 1, ![c].pc = "waiting"]
    /\ UNCHANGED <<useNativeAxios, enabled, rejected, started>>
    /\ UNCHANGED poolFrame

\* the end of handleApiError for client c: the 403 test and the throw
handleApiErrorThrow(c, st) ==
    /\ enabled' = IF st = "403"
                  THEN disableCurrentTokenInPool(clientCalls[c].token)
                  ELSE enabled
    /\ clientCalls' = [clientCalls EXCEPT ![c] =
          [@ EXCEPT !.status = st,
                    !.disables = IF st = "403" THEN @ + 1 ELSE @,
                    !.thrown = IF st = "403" THEN "disabled" ELSE "api_failed",
                    !.pc = afterFailure]]

\* the backend answers the request of client c
BackendAnswers(c, st) ==
    /\ clientCalls[c].pc = "waiting"
    /\ rejected' = IF st = "403" THEN rejected \cup {clientCalls[c].token} ELSE rejected
    /\ IF st = "200"
       THEN /\ clientCalls' = [clientCalls EXCEPT ![c] =
                 [@ EXCEPT !.status = st,
                           !.events = IF clientCalls[c].op = "generateAssistantResponse"
                                      THEN clientCalls[c].events + 1
                                      ELSE clientCalls[c].events,
                           !.pc = "returned"]]
            /\ UNCHANGED enabled
       ELSE IF awaitsErrorBody(clientCalls[c].op)
            THEN /\ clientCalls' = [clientCalls EXCEPT ![c].status = st,
                                                      ![c].pc = "errorBody"]
                 /\ UNCHANGED enabled
            ELSE handleApiErrorThrow(c, st)
    /\ UNCHANGED <<useNativeAxios, sent, started>>
    /\ UNCHANGED poolFrame

\* the request fails without a response: status 'Unknown'
NetworkFailure(c) ==
    /\ clientCalls[c].pc = "waiting"
    /\ handleApiErrorThrow(c, "Unknown")
    /\ UNCHANGED <<useNativeAxios, sent, rejected, started>>
    /\ UNCHANGED poolFrame

\* the error body has arrived; handleApiError runs to its throw
ErrorBodyDone(c) ==
    /\ clientCalls[c].pc = "errorBody"
    /\ handleApiErrorThrow(c, clientCalls[c].status)
    /\ UNCHANGED <<useNativeAxios, sent, rejected, started>>
    /\ UNCHANGED poolFrame

\* the caller has received the result or the error
CallOver(c) ==
    /\ clientCalls[c].pc \in {"thrown", "returned"}
    /\ clientCalls' = [clientCalls EXCEPT ![c] = IdleCall]
    /\ UNCHANGED <<useNativeAxios, enabled, sent, rejected, started>>
    /\ UNCHANGED poolFrame

PoolNext ==
    \/ \E c \in Clients, op \in Ops : Call(c, op)
    \/ \E c \in Clients : PoolGetToken(c)
    \/ \E c \in Clients : SendRequest(c)
    \/ \E c \in Clients, st \in PoolStatuses : BackendAnswers(c, st)
    \/ \E c \in Clients : NetworkFailure(c)
    \/ \E c \in Clients : ErrorBodyDone(c)
    \/ \E c \in Clients : CallOver(c)

PoolSpec == PoolInit /\ [][PoolNext]_vars

\* =====================================================================
\* Properties of the concurrent client calls (PoolSpec)
\* =====================================================================

\* C11: a disabled account is never selected.  No request was sent with the
\* token of an account that the backend had already answered with 403 when
\* the request's call obtained its token.
C11_RejectedAccountNeverSelected ==
    \A i \in 1..Len(sent) : ~sent[i].afterRejection

\* C12: one token selection and one backend request per client call.  A
\* call in progress has selected at most once and sent at most once, and a
\* call whose request has failed is at its throw, with the error set.
C12_NoRetryInsideCall ==
    \A c \in Clients :
        /\ clientCalls[c].selections <= 1
        /\ clientCalls[c].requests <= 1
        /\ (clientCalls[c].thrown # "none") => clientCalls[c].pc = "thrown"

\* a request failed with 403, another with a different failure, and both
\* calls are at their throw after one selection and one request
C12_Witness ==
    /\ clientCalls[1].pc = "thrown" /\ clientCalls[1].thrown = "disabled"
    /\ clientCalls[1].selections = 1 /\ clientCalls[1].requests = 1
    /\ clientCalls[2].pc = "thrown" /\ clientCalls[2].thrown = "api_failed"
    /\ clientCalls[2].selections = 1 /\ clientCalls[2].requests = 1
    /\ enabled # {}

\* C13: no token.  A call to which the pool returned no token is at its
\* throw with the no-token error; it has sent no request, emitted no event
\* and disabled no account.
C13_NoTokenFailsAtOnce ==
    \A c \in Clients :
        (clientCalls[c].selections > 0 /\ clientCalls[c].token = NoToken) =>
            /\ clientCalls[c].pc = "thrown"
            /\ clientCalls[c].thrown = "no_token"
            /\ clientCalls[c].requests = 0
            /\ clientCalls[c].events = 0
            /\ clientCalls[c].disables = 0
            /\ \A i \in 1..Len(sent) : sent[i].account # NoToken

\* the pool ran out of accounts during the run: the last one was disabled
\* by a 403, and the next call got no token
C13_Witness ==
    /\ \E c \in Clients : clientCalls[c].thrown = "no_token"
    /\ \E c \in Clients : clientCalls[c].op = "getAvailableModels"
                          /\ clientCalls[c].thrown = "no_token"
    /\ rejected # {}
    /\ enabled = {}

\* =====================================================================
\* Pure functions (PureSpec)
\* =====================================================================
MaxEntries == 1

ListValues == {Missing, NotArray} \cup {Arr(n) : n \in 0..MaxEntries}
MetaValues ==
    {NoMeta, [NoMeta EXCEPT !.kind = "null"], [NoMeta EXCEPT !.kind = "string"]}
    \cup [kind : {"object"}, webSearchQueries : ListValues,
          groundingChunks : ListValues, groundingSupports : ListValues]
Candidates ==
    {NoCandidate, [NoCandidate EXCEPT !.kind = "null"]}
    \cup [kind : {"object"}, groundingMetadata : MetaValues,
          groundingChunks : ListValues, groundingSupports : ListValues]

\* Array.isArray(v) && v.length > 0
isNonEmptyArray(v) == v.kind = "array" /\ v.length > 0

\* a test of the mere presence of a grounding-metadata object
hasGroundingDataByPresence(c) ==
    c.kind = "object" /\ c.groundingMetadata.kind = "object"

hasGroundingData(c) ==
    IF c.kind # "object" THEN FALSE
    ELSE LET meta == c.groundingMetadata
             chunks == c.groundingChunks
             supports == c.groundingSupports
         IN IF /\ meta.kind = "object"
               /\ \/ isNonEmptyArray(meta.webSearchQueries)
                  \/ isNonEmptyArray(meta.groundingChunks)
                  \/ isNonEmptyArray(meta.groundingSupports)
            THEN TRUE
            ELSE IF isNonEmptyArray(chunks) THEN TRUE
            ELSE IF isNonEmptyArray(supports) THEN TRUE
            ELSE FALSE

\* ---- generateClaudeRequestBody / buildRequestBody ----
MaxTools == 2

\* an element of the client's tool list: null, or a tool with a name
Tool(name) == [present |-> TRUE, name |-> name]
NullTool == [present |-> FALSE, name |-> ""]
ToolValues == {NullTool, Tool("web_search"), Tool("get_weather"), Tool("get weather")}

RECURSIVE ToolListsOfLen(_)
ToolListsOfLen(n) ==
    IF n = 0 THEN {<< >>}
    ELSE {Append(l, t) : l \in ToolListsOfLen(n - 1), t \in ToolValues}

ToolLists ==
    {NoTools} \cup {[isArray |-> TRUE, list |-> l] :
                       l \in UNION {ToolListsOfLen(n) : n \in 0..MaxTools}}

ModelNames == {"claude-sonnet-4-5", "claude-opus-4-5", "gemini-2.5-flash"}
modelMapping(name) ==
    IF name = "claude-opus-4-5" THEN "claude-opus-4-5-thinking" ELSE name

\* generateGenerationConfig: the generationConfig object of the request;
\* candidateCount 0 stands for a config without the field
generateGenerationConfig(params) == [candidateCount |-> params.candidateCount]
ParameterValues == {[candidateCount |-> n] : n \in 0..2}

GoogleSearchTool == [kind |-> "googleSearch", names |-> {}]

\* convertClaudeToolsToAntigravity: the function declarations of the
\* client's tools, under their sanitized names
convertClaudeToolsToAntigravity(tools) ==
    LET named == {i \in 1..Len(tools.list) : tools.list[i].present}
    IN IF ~tools.isArray \/ named = {} THEN << >>
       ELSE <<[kind |-> "functionDeclarations",
               names |-> {sanitizeToolName(tools.list[i].name) : i \in named}]>>

\* a test that looks at the first tool only
hasWebSearchToolFirstOnly(tools) ==
    tools.isArray /\ Len(tools.list) > 0
    /\ tools.list[1].present /\ tools.list[1].name = "web_search"

\* Array.isArray(tools) && tools.some((tool) => tool?.name === 'web_search')
hasWebSearchTool(tools) ==
    tools.isArray
    /\ \E i \in 1..Len(tools.list) :
           tools.list[i].present /\ tools.list[i].name = "web_search"

buildRequestBody(tools, generationConfig, isWebSearch, actualModelName) ==
    LET toolsPresent == Len(tools) > 0
    IN [set |-> TRUE,
        model |-> IF isWebSearch THEN "gemini-2.5-flash" ELSE actualModelName,
        requestType |-> IF isWebSearch THEN "web_search" ELSE "agent",
        tools |-> IF isWebSearch THEN <<GoogleSearchTool>>
                  ELSE IF toolsPresent THEN tools ELSE << >>,
        toolConfig |-> IF ~isWebSearch /\ toolsPresent THEN "VALIDATED" ELSE "none",
        generationConfig |-> IF isWebSearch
                             THEN [generationConfig EXCEPT !.candidateCount = 1]
                             ELSE generationConfig]

generateClaudeRequestBody(tools, name, params) ==
    LET actualModelName == modelMapping(name)
        isWebSearch == hasWebSearchTool(tools)
        converted == IF isWebSearch THEN << >> ELSE convertClaudeToolsToAntigravity(tools)
    IN buildRequestBody(converted, generateGenerationConfig(params), isWebSearch,
                        actualModelName)

\* ---- buildSystemPromptParts / buildSystemInstruction ----
MaxSegments == 2

RECURSIVE trimStart(_)
trimStart(text) ==
    IF text # << >> /\ text[1] = " " THEN trimStart(Tail(text)) ELSE text

\* String.prototype.trim()
trim(text) == trimStart(trimEnd(text))

\* an element of the caller's array as JSON can carry it: null, a string,
\* or an object with some of text, inlineData, fileData and other fields
Segment(shape, text, inlineData, fileData, other) ==
    [shape |-> shape, text |-> text, inlineData |-> inlineData,
     fileData |-> fileData, other |-> other]
\* the text of a segment that has no text field
Undefined == <<"undefined">>
NullSegment == Segment("null", Undefined, FALSE, FALSE, FALSE)
TextSegment(text) == Segment("object", text, FALSE, FALSE, FALSE)
CallerSegments ==
    { NullSegment,
      Segment("string", Undefined, FALSE, FALSE, FALSE),
      Segment("object", <<"u">>, FALSE, FALSE, TRUE),
      Segment("object", <<" ">>, FALSE, FALSE, FALSE),
      Segment("object", Undefined, TRUE, FALSE, FALSE),
      Segment("object", Undefined, FALSE, FALSE, TRUE) }

RECURSIVE SegmentListsOfLen(_)
SegmentListsOfLen(n) ==
    IF n = 0 THEN {<< >>}
    ELSE {Append(l, p) : l \in SegmentListsOfLen(n - 1), p \in CallerSegments}

SegmentLists == UNION {SegmentListsOfLen(n) : n \in 0..MaxSegments}

UserSystemPrompts ==
    {NoUserSystemPrompt}
    \cup {[type |-> "string", text |-> t, parts |-> << >>] : t \in {<< >>, <<" ">>, <<" ", "u">>}}
    \cup {[type |-> "array", text |-> << >>, parts |-> l] : l \in SegmentLists}
    \cup {[type |-> "object", text |-> << >>, parts |-> l] : l \in SegmentLists}

PromptTexts == {<<" ">>, <<"p", " ">>}
SystemPromptConfigs ==
    [officialSystemPrompt : {<<" ">>, <<" ", "o">>},
     systemInstruction : PromptTexts,
     useContextSystemPrompt : BOOLEAN,
     officialPromptPosition : {"before", "after"},
     mergeSystemPrompt : BOOLEAN]

\* if (!part || typeof part !== 'object') return part
cleanSystemPart(part) ==
    IF part.shape # "object" THEN part
    ELSE IF part.text = Undefined /\ ~part.inlineData /\ ~part.fileData
    THEN NullSegment
    ELSE [part EXCEPT !.other = FALSE]

\* .map(p => cleanSystemPart(p)).filter(p => p !== null)
RECURSIVE cleanAndFilter(_)
cleanAndFilter(parts) ==
    IF parts = << >> THEN << >>
    ELSE LET p == cleanSystemPart(Head(parts))
         IN (IF p.shape = "null" THEN << >> ELSE <<p>>) \o cleanAndFilter(Tail(parts))

buildSystemPromptParts(prompt) ==
    LET officialPrompt == systemPromptConfig.officialSystemPrompt
        proxyPrompt == systemPromptConfig.systemInstruction
        \* an object without parts, an empty string and undefined give no parts
        userParts ==
            IF prompt.type = "string"
            THEN (IF trim(prompt.text) # << >> THEN <<TextSegment(trim(prompt.text))>> ELSE << >>)
            ELSE IF prompt.type \in {"array", "object"} THEN cleanAndFilter(prompt.parts)
            ELSE << >>
        proxyParts ==
            (IF trim(proxyPrompt) # << >> THEN <<TextSegment(trim(proxyPrompt))>> ELSE << >>)
            \o (IF systemPromptConfig.useContextSystemPrompt /\ Len(userParts) > 0
                THEN userParts ELSE << >>)
        official ==
            IF trim(officialPrompt) # << >> THEN <<TextSegment(trim(officialPrompt))>> ELSE << >>
    IN IF systemPromptConfig.officialPromptPosition = "before"
       THEN official \o proxyParts
       ELSE proxyParts \o official

\* parts.map(p => p.text || '').filter(t => t.trim()): the texts joined
RECURSIVE mergedTexts(_)
mergedTexts(parts) ==
    IF parts = << >> THEN << >>
    ELSE (IF Head(parts).text # Undefined /\ trim(Head(parts).text) # << >>
          THEN <<Head(parts).text>> ELSE << >>) \o mergedTexts(Tail(parts))

\* null, or { role: 'user', parts }
buildSystemInstruction(prompt) ==
    LET parts == buildSystemPromptParts(prompt)
    IN IF Len(parts) = 0 THEN [kind |-> "null", parts |-> << >>, merged |-> << >>]
       ELSE IF systemPromptConfig.mergeSystemPrompt
       THEN [kind |-> "merged", parts |-> << >>, merged |-> mergedTexts(parts)]
       ELSE [kind |-> "parts", parts |-> parts, merged |-> << >>]

PureInit ==
    /\ \/ /\ fn = "hasGroundingData"
          /\ candidate \in Candidates
          /\ RequestArgsIdle
          /\ SystemPromptArgsIdle
       \/ /\ fn = "generateClaudeRequestBody"
          /\ claudeTools \in ToolLists
          /\ modelName \in ModelNames
          /\ parameters \in ParameterValues
          /\ CandidateIdle
          /\ SystemPromptArgsIdle
       \/ /\ fn = "buildSystemInstruction"
          /\ systemPromptConfig \in SystemPromptConfigs
          /\ userSystemPrompt \in UserSystemPrompts
          /\ CandidateIdle
          /\ RequestArgsIdle
    /\ NoPureResult
    /\ StreamIdle
    /\ BuildIdle
    /\ PoolIdle
    /\ RedirIdle
    /\ ConcIdle
    /\ RegIdle
    /\ CancelIdle
    /\ GroundIdle
    /\ PairIdle
    /\ WalkIdle
    /\ EmitIdle

ApplyHasGroundingData ==
    /\ fn = "hasGroundingData"
    /\ ~grounded.set
    /\ grounded' = [set |-> TRUE, value |-> hasGroundingData(candidate)]
    /\ UNCHANGED <<pureArgs, requestBody, systemInstruction>>
    /\ UNCHANGED pureFrame

ApplyGenerateClaudeRequestBody ==
    /\ fn = "generateClaudeRequestBody"
    /\ ~requestBody.set
    /\ requestBody' = generateClaudeRequestBody(claudeTools, modelName, parameters)
    /\ UNCHANGED <<pureArgs, grounded, systemInstruction>>
    /\ UNCHANGED pureFrame

ApplyBuildSystemInstruction ==
    /\ fn = "buildSystemInstruction"
    /\ ~systemInstruction.set
    /\ systemInstruction' =
           [set |-> TRUE,
            parts |-> buildSystemPromptParts(userSystemPrompt),
            instruction |-> buildSystemInstruction(userSystemPrompt)]
    /\ UNCHANGED <<pureArgs, grounded, requestBody>>
    /\ UNCHANGED pureFrame

PureNext ==
    \/ ApplyHasGroundingData
    \/ ApplyGenerateClaudeRequestBody
    \/ ApplyBuildSystemInstruction

PureSpec == PureInit /\ [][PureNext]_vars

\* =====================================================================
\* Properties of the pure functions (PureSpec)
\* =====================================================================

\* the number of entries a value contributes as a list
entries(v) == IF v.kind = "array" THEN v.length ELSE 0
\* queries, chunks and supports of the grounding metadata, and chunks and
\* supports at candidate level
EvidenceCount(c) ==
    IF c.kind # "object" THEN 0
    ELSE (IF c.groundingMetadata.kind = "object"
          THEN entries(c.groundingMetadata.webSearchQueries)
               + entries(c.groundingMetadata.groundingChunks)
               + entries(c.groundingMetadata.groundingSupports)
          ELSE 0)
         + entries(c.groundingChunks) + entries(c.groundingSupports)

\* C15: hasGroundingData is false for an absent candidate, for a candidate
\* without grounding metadata, and for a metadata object whose query, chunk
\* and support lists are all missing or empty (nothing being present at
\* candidate level either); it is true whenever at least one query, chunk
\* or support is present, in the metadata or at candidate level.
C15_HasGroundingData ==
    grounded.set =>
        /\ (candidate.kind # "object") => ~grounded.value
        /\ grounded.value <=> (EvidenceCount(candidate) > 0)

\* an empty metadata object was judged not grounded
C15_Witness ==
    /\ grounded.set
    /\ candidate.kind = "object"
    /\ candidate.groundingMetadata.kind = "object"
    /\ candidate.groundingMetadata.webSearchQueries = Arr(0)
    /\ candidate.groundingMetadata.groundingChunks = Missing
    /\ EvidenceCount(candidate) = 0
    /\ ~grounded.value

\* C20: web-search requests.  When the client's tool list holds a tool
\* named web_search, the request has exactly one tool, the googleSearch
\* descriptor, no function declarations, no toolConfig, the model
\* gemini-2.5-flash, the requestType web_search and candidateCount 1;
\* otherwise it has no googleSearch tool, the requestType agent and the
\* mapped model.
NamesWebSearch ==
    claudeTools.isArray
    /\ "web_search" \in {claudeTools.list[i].name :
                            i \in {j \in 1..Len(claudeTools.list) : claudeTools.list[j].present}}
ToolKinds == {requestBody.tools[i].kind : i \in 1..Len(requestBody.tools)}

C20_WebSearchRequest ==
    requestBody.set =>
        IF NamesWebSearch
        THEN /\ requestBody.tools = <<GoogleSearchTool>>
             /\ "functionDeclarations" \notin ToolKinds
             /\ requestBody.toolConfig = "none"
             /\ requestBody.model = "gemini-2.5-flash"
             /\ requestBody.requestType = "web_search"
             /\ requestBody.generationConfig.candidateCount = 1
        ELSE /\ "googleSearch" \notin ToolKinds
             /\ requestBody.requestType = "agent"
             /\ requestBody.model = modelMapping(modelName)

\* web_search came second in the list, after a function tool, with another
\* candidateCount asked for and a model that is mapped
C20_Witness ==
    /\ requestBody.set
    /\ claudeTools = [isArray |-> TRUE, list |-> <<Tool("get weather"), Tool("web_search")>>]
    /\ parameters.candidateCount = 2
    /\ modelName = "claude-opus-4-5"
    /\ requestBody.generationConfig.candidateCount = 1

\* C28: system prompt assembly.  The operator prompt comes first among the
\* proxy segments and the caller's segments follow it, only when
\* useContextSystemPrompt is on; the official prompt stands before all of
\* them when officialPromptPosition is 'before' and after all of them
\* otherwise; blank prompts, and caller segments with none of text,
\* inlineData, fileData, are dropped; buildSystemInstruction returns null
\* when no segment remains.
HasSupportedField(seg) ==
    seg.shape = "object" /\ (seg.text # Undefined \/ seg.inlineData \/ seg.fileData)

RECURSIVE SupportedSegments(_)
SupportedSegments(segs) ==
    IF segs = << >> THEN << >>
    ELSE (IF HasSupportedField(Head(segs))
          THEN <<[Head(segs) EXCEPT !.other = FALSE]>> ELSE << >>)
         \o SupportedSegments(Tail(segs))

PromptSegment(text) ==
    IF \A i \in 1..Len(text) : text[i] = " " THEN << >> ELSE <<TextSegment(trim(text))>>

ExpectedSystemParts ==
    LET caller == IF userSystemPrompt.type = "string"
                  THEN PromptSegment(userSystemPrompt.text)
                  ELSE SupportedSegments(userSystemPrompt.parts)
        proxy == PromptSegment(systemPromptConfig.systemInstruction)
                 \o (IF systemPromptConfig.useContextSystemPrompt THEN caller ELSE << >>)
        official == PromptSegment(systemPromptConfig.officialSystemPrompt)
    IN IF systemPromptConfig.officialPromptPosition = "before"
       THEN official \o proxy ELSE proxy \o official

C28_SystemPromptOrder ==
    systemInstruction.set =>
        /\ systemInstruction.parts = ExpectedSystemParts
        /\ ExpectedSystemParts = << >> => systemInstruction.instruction.kind = "null"

\* =====================================================================
\* Redirect resolution (RedirSpec)
\* =====================================================================
MaxLookups == 2
CacheCap == 2000
MaxHops == 5

isVertexGroundingRedirectUrl(url) == url \in RedirectUrls

\* Location headers the network may answer with: two targets, and a
\* google.com/url?q= wrapper of the second.  A redirect URL leads to "m",
\* "m" to the wrapper of "f", and "f" to itself or back to "m".
Locations == {"m", "f", "gf"}
LocationsAt(url) ==
    IF url \in RedirectUrls THEN {"m"}
    ELSE IF url = "m" THEN {"gf"}
    ELSE {"m", "f"}
unwrapGoogleRedirectUrl(url) == IF url = "gf" THEN "f" ELSE url

\* what one fetch(currentUrl, {redirect: 'manual'}) may do
Outcome(kind, location) == [kind |-> kind, location |-> location]
Aborted == Outcome("abort", "")
NotIssued == Outcome("notIssued", "")
Outcomes ==
    {Outcome("error", ""), Outcome("status200", ""), Outcome("noLocation", ""),
     Outcome("badLocation", "")}
    \cup {Outcome("redirect", l) : l \in Locations}
OutcomesAt(url) ==
    {o \in Outcomes : o.kind = "redirect" => o.location \in LocationsAt(url)}
Failures == {"error", "abort"}

\* getNextLocation without its try/catch: a failed fetch and an unparsable
\* Location are thrown
getNextLocationNoCatch(o) ==
    IF o.kind \in {"error", "abort", "badLocation"} THEN "THROW"
    ELSE IF o.kind = "redirect" THEN unwrapGoogleRedirectUrl(o.location)
    ELSE ""

\* getNextLocation: the unwrapped Location of a 3xx answer, '' otherwise
getNextLocation(o) ==
    IF o.kind = "redirect" THEN unwrapGoogleRedirectUrl(o.location) ELSE ""

\* (await getNextLocation(current, 'HEAD')) || (await getNextLocation(current, 'GET'))
nextLocation(oh, og) ==
    LET h == getNextLocation(oh)
    IN IF h # "" THEN h ELSE getNextLocation(og)

\* resolvedRedirectUrlCache.size
CacheSize ==
    otherEntries
    + Cardinality({u \in RedirectUrls : resolvedRedirectUrlCache[u].kind # "none"})

RedirInit ==
    /\ resolvedRedirectUrlCache = [u \in RedirectUrls |-> NoCacheEntry]
    /\ otherEntries \in {0, CacheCap}
    /\ fetches = << >>
    /\ lookups = [c \in Callers |-> IdleLookup]
    /\ lookupsStarted = 0
    /\ StreamIdle
    /\ BuildIdle
    /\ PoolIdle
    /\ PureIdle
    /\ ConcIdle
    /\ RegIdle
    /\ CancelIdle
    /\ GroundIdle
    /\ PairIdle
    /\ WalkIdle
    /\ EmitIdle

\* result.url after the callback of resolveWebSearchRedirectUrls
resultUrlAfter(url, finalUrl) ==
    IF finalUrl # "" /\ finalUrl # url THEN finalUrl ELSE url

\* One callback of resolveWebSearchRedirectUrls starts for a search result
\* with the given url: resolveVertexGroundingRedirectUrl up to its await.
Lookup(c, url) ==
    /\ lookups[c].pc = "idle"
    /\ lookupsStarted < MaxLookups
    /\ lookupsStarted' = lookupsStarted + 1
    /\ IF ~isVertexGroundingRedirectUrl(url)
       THEN /\ lookups' = [lookups EXCEPT ![c] =
                 [IdleLookup EXCEPT !.pc = "done", !.url = url, !.finalUrl = url,
                                    !.resultUrl = url]]
            /\ UNCHANGED <<resolvedRedirectUrlCache, fetches>>
       ELSE LET cached == resolvedRedirectUrlCache[url]
            IN IF cached.kind = "string"
               THEN /\ lookups' = [lookups EXCEPT ![c] =
                         [IdleLookup EXCEPT !.pc = "done", !.url = url,
                                            !.finalUrl = cached.v,
                                            !.resultUrl = resultUrlAfter(url, cached.v)]]
                    /\ UNCHANGED <<resolvedRedirectUrlCache, fetches>>
               ELSE IF cached.kind = "promise"
               THEN /\ lookups' = [lookups EXCEPT ![c] =
                         [IdleLookup EXCEPT !.pc = "awaiting", !.url = url,
                                            !.p = cached.p, !.coalesced = TRUE]]
                    /\ UNCHANGED <<resolvedRedirectUrlCache, fetches>>
               ELSE /\ fetches' = Append(fetches,
                         [url |-> url, current |-> url, i |-> 0, aborted |-> FALSE,
                          state |-> "running", failed |-> FALSE])
                    /\ resolvedRedirectUrlCache' =
                         [resolvedRedirectUrlCache EXCEPT
                             ![url] = [kind |-> "promise", p |-> Len(fetches) + 1, v |-> ""]]
                    /\ lookups' = [lookups EXCEPT ![c] =
                         [IdleLookup EXCEPT !.pc = "awaiting", !.url = url,
                                            !.p = Len(fetches) + 1]]
    /\ UNCHANGED otherEntries
    /\ UNCHANGED redirFrame

\* setTimeout(() => controller.abort(), timeoutMs) fires
Timeout(k) ==
    /\ k \in 1..Len(fetches)
    /\ fetches[k].state = "running"
    /\ ~fetches[k].aborted
    /\ fetches' = [fetches EXCEPT ![k].aborted = TRUE]
    /\ UNCHANGED <<resolvedRedirectUrlCache, otherEntries, lookups, lookupsStarted>>
    /\ UNCHANGED redirFrame

\* the promise of fetch k has settled: the continuation of
\* resolveVertexGroundingRedirectUrl in the lookup that started it, and the
\* lookups that were handed the cached promise
Settle(k, f) ==
    /\ lookups' = [c \in Callers |->
          IF lookups[c].pc = "awaiting" /\ lookups[c].p = k
          THEN IF f.state = "fulfilled"
               THEN [lookups[c] EXCEPT !.pc = "done", !.finalUrl = f.current,
                                       !.resultUrl = resultUrlAfter(f.url, f.current)]
               ELSE IF lookups[c].coalesced
               THEN [lookups[c] EXCEPT !.pc = "rejected"]
               ELSE [lookups[c] EXCEPT !.pc = "done", !.finalUrl = f.url,
                                       !.resultUrl = f.url]
          ELSE lookups[c]]
    /\ IF f.state = "fulfilled"
       THEN LET set == [resolvedRedirectUrlCache EXCEPT
                           ![f.url] = [kind |-> "string", p |-> 0, v |-> f.current]]
                size == otherEntries
                        + Cardinality({u \in RedirectUrls : set[u].kind # "none"})
            IN IF size > CacheCap
               THEN /\ resolvedRedirectUrlCache' = [u \in RedirectUrls |-> NoCacheEntry]
                    /\ otherEntries' = 0
               ELSE /\ resolvedRedirectUrlCache' = set
                    /\ otherEntries' = otherEntries
       ELSE /\ resolvedRedirectUrlCache' =
                  [resolvedRedirectUrlCache EXCEPT ![f.url] = NoCacheEntry]
            /\ otherEntries' = otherEntries

\* a finished invocation: its loop counter and its controller are gone
Settled(f) == [f EXCEPT !.i = 0, !.aborted = FALSE]

\* One iteration of the loop of fetchFinalUrl for invocation k: the HEAD
\* request and, when it gives no location, the GET request.  After the
\* abort of the controller every fetch rejects.
Hop(k, oh, og) ==
    /\ k \in 1..Len(fetches)
    /\ fetches[k].state = "running"
    /\ IF fetches[k].aborted
       THEN oh = Aborted
       ELSE oh \in OutcomesAt(fetches[k].current)
    /\ IF getNextLocation(oh) # ""
       THEN og = NotIssued
       ELSE IF fetches[k].aborted
       THEN og = Aborted
       ELSE og \in OutcomesAt(fetches[k].current)
    /\ LET f == fetches[k]
           next == nextLocation(oh, og)
           g == IF next = "THROW"
                THEN Settled([f EXCEPT !.state = "rejected", !.failed = TRUE])
                ELSE IF next = "" \/ next = f.current
                THEN Settled([f EXCEPT !.state = "fulfilled",
                                       !.failed = (next = "" /\ oh.kind \in Failures
                                                             /\ og.kind \in Failures)])
                ELSE IF f.i + 1 = MaxHops
                THEN Settled([f EXCEPT !.current = next, !.state = "fulfilled"])
                ELSE [f EXCEPT !.current = next, !.i = f.i + 1]
       IN /\ fetches' = [fetches EXCEPT ![k] = g]
          /\ IF g.state = "running"
             THEN UNCHANGED <<resolvedRedirectUrlCache, otherEntries, lookups>>
             ELSE Settle(k, g)
    /\ UNCHANGED lookupsStarted
    /\ UNCHANGED redirFrame

\* the callback has returned
LookupOver(c) ==
    /\ lookups[c].pc \in {"done", "rejected"}
    /\ lookups' = [lookups EXCEPT ![c] = IdleLookup]
    /\ UNCHANGED <<resolvedRedirectUrlCache, otherEntries, fetches, lookupsStarted>>
    /\ UNCHANGED redirFrame

RedirNext ==
    \/ \E c \in Callers, url \in RedirectUrls \cup {PlainUrl} : Lookup(c, url)
    \/ \E k \in 1..Len(fetches) : Timeout(k)
    \/ \E k \in 1..Len(fetches), oh, og \in Outcomes \cup {Aborted, NotIssued} :
          Hop(k, oh, og)
    \/ \E c \in Callers : LookupOver(c)

RedirSpec == RedirInit /\ [][RedirNext]_vars

\* =====================================================================
\* Properties of the redirect resolution (RedirSpec)
\* =====================================================================
FetchesOf(url) == {k \in 1..Len(fetches) : fetches[k].url = url}

\* C16: coalescing.  For every redirect URL at most one fetchFinalUrl was
\* started, and every lookup of it that has returned holds the final URL of
\* that resolution.
C16_ResolutionCoalesced ==
    \A url \in RedirectUrls :
        /\ Cardinality(FetchesOf(url)) <= 1
        /\ \A c \in Callers, k \in FetchesOf(url) :
              (lookups[c].pc = "done" /\ lookups[c].url = url /\ fetches[k].state = "fulfilled")
                  => lookups[c].finalUrl = fetches[k].current

\* C17: the cache never holds more than its cap, in-flight entries counted.
C17_CacheBounded == CacheSize <= CacheCap

\* C18: a resolution that timed out or failed at some hop gives its callers
\* the original redirect URL, and leaves it in the search result.
C18_FailureFallsBackToOriginal ==
    \A c \in Callers :
        (/\ lookups[c].pc = "done"
         /\ lookups[c].p # 0
         /\ fetches[lookups[c].p].failed)
        => /\ lookups[c].finalUrl = lookups[c].url
           /\ lookups[c].resultUrl = lookups[c].url

\* C19: no lookup rejects, whatever the network does at each hop: neither
\* the lookup that started the resolution nor one that awaits the cached
\* promise.
C19_ResolutionNeverRejects ==
    \A c \in Callers : lookups[c].pc # "rejected"

\* a lookup that awaited the in-flight promise of another one has returned
\* after the resolution failed at a hop
C19_Witness ==
    \E c \in Callers :
        /\ lookups[c].pc = "done"
        /\ lookups[c].coalesced
        /\ fetches[lookups[c].p].failed

\* C38: a failed resolution is not memoized.  At the step where a
\* fetchFinalUrl settles after its requests failed or were aborted by the
\* timer, the cache is left without an entry for its URL.
C38_FailureNotMemoized ==
    [][\A k \in 1..Len(fetches) :
          (/\ fetches[k].state = "running"
           /\ fetches'[k].state # "running"
           /\ fetches'[k].failed)
          => resolvedRedirectUrlCache'[fetches[k].url].kind = "none"]_vars

\* =====================================================================
\* Concurrent streamed calls (ConcSpec)
\* =====================================================================
\* Two invocations of generateAssistantResponse whose chunks arrive in any
\* interleaving.  Each invocation allocates its state object and its line
\* buffer (part_000:149-150); processChunk is a closure over them.
MaxConcLines == 1

ConcLineSet == {LThought, LText, LCallFinish}

RECURSIVE ConcBodiesOfLen(_)
ConcBodiesOfLen(n) ==
    IF n = 0 THEN {<< >>}
    ELSE {b \o l : b \in ConcBodiesOfLen(n - 1), l \in ConcLineSet}

ConcBodies == UNION {ConcBodiesOfLen(k) : k \in 0..MaxConcLines}

\* one state object for the whole module
moduleLevelState(c) == 1

\* const state = {...}; let buffer = '': the objects of invocation c
newState(c) == c

ConcInit ==
    /\ transportIsAxios \in BOOLEAN
    /\ streamCalls \in [StreamCallers -> {[IdleStream EXCEPT !.pc = "start", !.body = b] :
                                            b \in ConcBodies}]
    /\ heap = << >>
    /\ StreamIdle
    /\ BuildIdle
    /\ PoolIdle
    /\ PureIdle
    /\ RedirIdle
    /\ RegIdle
    /\ CancelIdle
    /\ GroundIdle
    /\ PairIdle
    /\ WalkIdle
    /\ EmitIdle

\* generateAssistantResponse up to the request: state and buffer are created
ConcCall(c) ==
    /\ streamCalls[c].pc = "start"
    /\ LET a == newState(c)
       IN /\ heap' = (a :> [InitCx EXCEPT !.out = << >>]) @@ heap
          /\ streamCalls' = [streamCalls EXCEPT ![c].pc = "streaming", ![c].state = a]
    /\ UNCHANGED transportIsAxios
    /\ UNCHANGED concFrame

SplitsCharacterOf(b, k) == k >= 1 /\ k < Len(b) /\ b[k] = "C3" /\ b[k + 1] = "A9"

\* 'data' / onData of call c: processChunk on the state of c; the events go
\* to the callback of c
ConcOnData(c, n) ==
    LET call == streamCalls[c]
        chunk == toString(SubSeq(call.body, call.pos + 1, call.pos + n))
        cx == processChunk(heap[call.state], chunk)
    IN /\ call.pc = "streaming"
       /\ n >= 1
       /\ call.pos + n <= Len(call.body)
       /\ transportIsAxios \/ ~SplitsCharacterOf(call.body, call.pos + n)
       /\ heap' = [heap EXCEPT ![call.state] = [cx EXCEPT !.out = << >>]]
       /\ streamCalls' = [streamCalls EXCEPT
                             ![c].pos = call.pos + n,
                             ![c].events = call.events \o cx.out,
                             ![c].alone = processChunk(call.alone, chunk)]
       /\ UNCHANGED transportIsAxios
       /\ UNCHANGED concFrame

\* 'end' / onEnd of call c
ConcOnEnd(c) ==
    /\ streamCalls[c].pc = "streaming"
    /\ streamCalls[c].pos = Len(streamCalls[c].body)
    /\ streamCalls' = [streamCalls EXCEPT ![c].pc = "ended"]
    /\ UNCHANGED <<transportIsAxios, heap>>
    /\ UNCHANGED concFrame

ConcNext ==
    \/ \E c \in StreamCallers : ConcCall(c)
    \/ \E c \in StreamCallers : \E n \in 1..Len(streamCalls[c].body) : ConcOnData(c, n)
    \/ \E c \in StreamCallers : ConcOnEnd(c)

ConcSpec == ConcInit /\ [][ConcNext]_vars

\* ---------------------------------------------------------------------
\* Properties of ConcSpec
\* ---------------------------------------------------------------------
\* C21: stream state is never shared across calls.  Under every
\* interleaving of the chunks of two concurrent calls, the events a call
\* has emitted are the events it emits when it receives the same chunks
\* alone, and the thinking flag, pending tool calls and line buffer it
\* works on are those of its run alone.
C21_StreamStateNotShared ==
    \A c \in StreamCallers :
        streamCalls[c].pc \in {"streaming", "ended"} =>
            /\ streamCalls[c].events = streamCalls[c].alone.out
            /\ heap[streamCalls[c].state] = [streamCalls[c].alone EXCEPT !.out = << >>]

\* call 1 has an open thinking block and is not at its end when call 2
\* has emitted its text, and nothing but its text
C21_Witness ==
    /\ streamCalls[1].pc = "streaming"
    /\ heap[streamCalls[1].state].thinkingStarted
    /\ streamCalls[1].pos < Len(streamCalls[1].body)
    /\ streamCalls[2].pc = "ended"
    /\ streamCalls[2].body = LText
    /\ Len(streamCalls[2].events) = 1

\* =====================================================================
\* Tool-name registry across sessions (RegSpec)
\* =====================================================================
\* Requests of two sessions for the same model; each tool_use of an
\* assistant message goes through processToolName(item.name, sessionId,
\* actualModelName) (converters/claude.js:67).
ClientToolNames ==
    {"get weather", "get.weather", "get_weather", "read file", "read.file", "read/file"}

RegInit ==
    /\ toolNameRegistry = {}
    /\ registeredBy = {}
    /\ StreamIdle
    /\ BuildIdle
    /\ PoolIdle
    /\ PureIdle
    /\ RedirIdle
    /\ ConcIdle
    /\ CancelIdle
    /\ GroundIdle
    /\ PairIdle
    /\ WalkIdle
    /\ EmitIdle

\* processToolName for a tool_use of a request of session s: sessionId is
\* not handed to setToolNameMapping (common.js:155)
ProcessToolNameOf(s, originalName) ==
    LET r == processToolName(originalName, toolNameRegistry)
    IN /\ toolNameRegistry' = r.map
       /\ registeredBy' =
              IF r.safeName # originalName
              THEN {e \in registeredBy : ~(e[1] = s /\ e[2] = r.safeName)}
                   \cup {<<s, r.safeName, originalName>>}
              ELSE registeredBy
       /\ UNCHANGED regFrame

RegNext == \E s \in Sessions : \E name \in ClientToolNames : ProcessToolNameOf(s, name)

RegSpec == RegInit /\ [][RegNext]_vars

\* ---------------------------------------------------------------------
\* Properties of RegSpec
\* ---------------------------------------------------------------------
\* C22: the registry is scoped per (session, model).  The mapping a
\* session registered last for a safe name is still the one the registry
\* holds for it, whatever requests of the other session, for the same
\* model, have registered since.
C22_RegistryScopedPerSession ==
    \A e \in registeredBy : <<e[2], e[3]>> \in toolNameRegistry

\* =====================================================================
\* Client disconnect during a streamed response (CancelSpec)
\* =====================================================================
\* The streamed request of Spec, with a client that may close its
\* connection while the response is in flight.  The route registers no
\* listener for the close of req or res (formatters/claude.js:224-261) and
\* generateAssistantResponse is handed no signal (part_000:144), so the
\* close changes nothing the handler reads.
ClientDisconnects ==
    /\ pc \in {"request", "streaming"}
    /\ ~clientGone
    /\ clientGone' = TRUE
    /\ UNCHANGED cancelFrame

CancelNext ==
    \/ Next
    \/ ClientDisconnects

CancelSpec == Init /\ [][CancelNext]_vars

\* C23: after the client has disconnected no further backend chunk is
\* interpreted and no further frame is written for the call.
C23_DisconnectStopsConsumption ==
    [][clientGone => (pos' = pos /\ events' = events /\ res' = res)]_vars

\* =====================================================================
\* Grounded (web-search) client message (GroundSpec)
\* =====================================================================
MaxChunks == 2
MaxSupports == 2

\* a grounding chunk: web.uri and web.title, '' where the field is absent
\* or no string
Chunk(uri, title) == [uri |-> uri, title |-> title]
\* a chunk with both, one with a title only, one with neither, and one whose
\* URL is a Vertex grounding redirect
ChunkValues == {Chunk("a", "A"), Chunk("", "T"), Chunk("", ""), Chunk("v1", "R")}
\* a grounding support: segment.text and groundingChunkIndices (0-based)
Support(text, indices) == [text |-> text, groundingChunkIndices |-> indices]
SupportValues == {Support("c", <<0>>), Support("d", <<0, 1>>), Support("", <<0>>)}
\* a part of the candidate's content
ResponsePart(thought, text) == [thought |-> thought, text |-> text]
PartLists ==
    {<< >>,
     <<ResponsePart(TRUE, <<"t">>)>>,
     <<ResponsePart(FALSE, <<"x">>)>>,
     <<ResponsePart(TRUE, <<"t">>), ResponsePart(FALSE, <<"x">>)>>,
     <<ResponsePart(FALSE, <<"x">>), ResponsePart(FALSE, <<"y">>)>>,
     <<ResponsePart(FALSE, << >>)>>}
SeqsUpTo(S, n) == UNION {[1..k -> S] : k \in 0..n}
RawJSONs ==
    [groundingChunks : SeqsUpTo(ChunkValues, MaxChunks),
     groundingSupports : SeqsUpTo(SupportValues, MaxSupports),
     parts : PartLists]
Builders == {"buildNonStreamingWebSearchMessage", "createClaudeResponse"}

\* the final URL a resolved redirect leads to
FinalUrl == "f"

\* webSearchGrounding.js:13: one id per message
makeSrvToolUseId == "srvtoolu_1"

\* webSearchGrounding.js:23: the encoding of a payload, by its content
stableEncryptedContent(payload) == payload

WebSearchResult(url, title) ==
    [type |-> "web_search_result", title |-> title, url |-> url,
     encrypted_content |-> stableEncryptedContent(<<url, title>>)]

\* webSearchGrounding.js:37-52: one result per chunk, then the results with
\* neither URL nor title are dropped
toWebSearchResults(groundingChunks) ==
    LET mapped == [i \in DOMAIN groundingChunks |->
                       WebSearchResult(groundingChunks[i].uri, groundingChunks[i].title)]
    IN SelectSeq(mapped, LAMBDA r : r.url # "" \/ r.title # "")

\* webSearchGrounding.js:153-176, the cache aside (RedirSpec): the final
\* URL, or the URL itself when the fetch throws
resolveVertexGroundingRedirectUrl(url) ==
    IF ~isVertexGroundingRedirectUrl(url) THEN url
    ELSE IF redirectResolves THEN FinalUrl
    ELSE url

\* webSearchGrounding.js:182-198: each result's url is replaced in place
resolveWebSearchRedirectUrls(results) ==
    [i \in DOMAIN results |->
        LET result == results[i]
        IN IF result.url = "" \/ ~isVertexGroundingRedirectUrl(result.url) THEN result
           ELSE LET finalUrl == resolveVertexGroundingRedirectUrl(result.url)
                IN IF finalUrl # "" /\ finalUrl # result.url
                   THEN WebSearchResult(finalUrl, result.title)
                   ELSE result]

Citation(cited_text, result) ==
    [type |-> "web_search_result_location", cited_text |-> cited_text,
     url |-> result.url, title |-> result.title,
     encrypted_index |->
         stableEncryptedContent(<<result.url, result.title, cited_text>>)]

\* webSearchGrounding.js:212-223: results[idx] for each index, in order
RECURSIVE citationsAt(_, _, _)
citationsAt(results, cited_text, indices) ==
    IF indices = << >> THEN << >>
    ELSE LET idx == Head(indices)
             rest == citationsAt(results, cited_text, Tail(indices))
         IN IF idx + 1 \notin DOMAIN results THEN rest
            ELSE <<Citation(cited_text, results[idx + 1])>> \o rest

\* webSearchGrounding.js:206-225
buildCitationsFromSupport(results, support) ==
    IF support.text = "" THEN << >>
    ELSE citationsAt(results, support.text, support.groundingChunkIndices)

\* a text block for every support, with or without citations
RECURSIVE citationBlocksKeepEmpty(_, _)
citationBlocksKeepEmpty(results, supports) ==
    IF supports = << >> THEN << >>
    ELSE <<[type |-> "text", text |-> << >>,
            citations |-> buildCitationsFromSupport(results, Head(supports))]>>
         \o citationBlocksKeepEmpty(results, Tail(supports))

\* webSearchGrounding.js:289-293, formatters/claude.js:70-78: a text block
\* for each support that has citations
RECURSIVE citationBlocks(_, _)
citationBlocks(results, supports) ==
    IF supports = << >> THEN << >>
    ELSE LET citations == buildCitationsFromSupport(results, Head(supports))
             rest == citationBlocks(results, Tail(supports))
         IN IF Len(citations) = 0 THEN rest
            ELSE <<[type |-> "text", text |-> << >>, citations |-> citations]>> \o rest

\* parts.filter(...).map((p) => p.text).join('')
RECURSIVE joinedText(_, _)
joinedText(parts, thought) ==
    IF parts = << >> THEN << >>
    ELSE (IF Head(parts).thought = thought THEN Head(parts).text ELSE << >>)
         \o joinedText(Tail(parts), thought)

\* webSearchGrounding.js:458-480
extractGroundingData(cand) ==
    [results |-> toWebSearchResults(cand.groundingChunks),
     supports |-> cand.groundingSupports]

\* webSearchGrounding.js:235-303: the content of the message
buildNonStreamingWebSearchMessage(cand) ==
    LET results == resolveWebSearchRedirectUrls(toWebSearchResults(cand.groundingChunks))
        supports == cand.groundingSupports
        thinking == joinedText(cand.parts, TRUE)
        answerText == joinedText(cand.parts, FALSE)
        toolUseId == makeSrvToolUseId
    IN (IF thinking # << >>
        THEN <<[type |-> "thinking", thinking |-> thinking]>> ELSE << >>)
       \o <<[type |-> "server_tool_use", id |-> toolUseId, name |-> "web_search"]>>
       \o <<[type |-> "web_search_tool_result", tool_use_id |-> toolUseId,
             content |-> results]>>
       \o citationBlocks(results, supports)
       \o (IF answerText # << >>
           THEN <<[type |-> "text", text |-> answerText]>> ELSE << >>)

\* formatters/claude.js:89-113
toolUseBlocks(toolCalls) ==
    [i \in DOMAIN toolCalls |-> [type |-> "tool_use", id |-> toolCalls[i]]]

\* formatters/claude.js:20-136: the content of the response
createClaudeResponse(content, reasoning, toolCalls, webSearchData) ==
    LET toolUseId == makeSrvToolUseId
    IN (IF reasoning # << >>
        THEN <<[type |-> "thinking", thinking |-> reasoning]>> ELSE << >>)
       \o (IF webSearchData.set
           THEN <<[type |-> "server_tool_use", id |-> toolUseId, name |-> "web_search"]>>
                \o <<[type |-> "web_search_tool_result", tool_use_id |-> toolUseId,
                      content |-> webSearchData.results]>>
                \o citationBlocks(webSearchData.results, webSearchData.supports)
           ELSE << >>)
       \o (IF content # << >>
           THEN <<[type |-> "text", text |-> content]>> ELSE << >>)
       \o toolUseBlocks(toolCalls)

GroundInit ==
    /\ builder \in Builders
    /\ rawJSON \in RawJSONs
    /\ redirectResolves \in BOOLEAN
    /\ clientMessage = NoMessage
    /\ StreamIdle
    /\ BuildIdle
    /\ PoolIdle
    /\ PureIdle
    /\ RedirIdle
    /\ ConcIdle
    /\ RegIdle
    /\ CancelIdle
    /\ PairIdle
    /\ WalkIdle
    /\ EmitIdle

BuildNonStreamingWebSearchMessage ==
    /\ builder = "buildNonStreamingWebSearchMessage"
    /\ ~clientMessage.set
    /\ clientMessage' = [set |-> TRUE, content |-> buildNonStreamingWebSearchMessage(rawJSON)]
    /\ UNCHANGED <<builder, rawJSON, redirectResolves>>
    /\ UNCHANGED groundFrame

\* The response of a grounded, non-streamed call: the web-search data are
\* those of extractGroundingData with their redirects resolved, the text and
\* the reasoning are those of the candidate's parts, and there is no tool
\* call, the request having declared the search tool alone.
CreateClaudeResponse ==
    /\ builder = "createClaudeResponse"
    /\ ~clientMessage.set
    /\ LET data == extractGroundingData(rawJSON)
           webSearchData ==
               [set |-> TRUE, results |-> resolveWebSearchRedirectUrls(data.results),
                supports |-> data.supports]
       IN clientMessage' =
              [set |-> TRUE,
               content |-> createClaudeResponse(joinedText(rawJSON.parts, FALSE),
                                                joinedText(rawJSON.parts, TRUE),
                                                << >>, webSearchData)]
    /\ UNCHANGED <<builder, rawJSON, redirectResolves>>
    /\ UNCHANGED groundFrame

GroundNext ==
    \/ BuildNonStreamingWebSearchMessage
    \/ CreateClaudeResponse

GroundSpec == GroundInit /\ [][GroundNext]_vars

\* ---- properties of the grounded message ----
\* the kinds of content block
BlockKind(b) ==
    IF b.type # "text" THEN b.type
    ELSE IF "citations" \in DOMAIN b THEN "citation"
    ELSE "answer"
BlockRank(b) ==
    CASE BlockKind(b) = "thinking" -> 1
      [] BlockKind(b) = "server_tool_use" -> 2
      [] BlockKind(b) = "web_search_tool_result" -> 3
      [] BlockKind(b) = "citation" -> 4
      [] BlockKind(b) = "answer" -> 5
      [] OTHER -> 6
BlocksOfKind(content, kind) == SelectSeq(content, LAMBDA b : BlockKind(b) = kind)

\* the results the message shows in its web_search_tool_result block
ShownResults == BlocksOfKind(clientMessage.content, "web_search_tool_result")[1].content

\* the URL of a chunk after redirect resolution
ResolvedUrl(uri) ==
    IF uri \in RedirectUrls /\ redirectResolves THEN FinalUrl ELSE uri

\* C29: the citation built for index i of a support carries the URL (as
\* resolved) and the title of the i-th grounding chunk of the backend
\* response, whatever the chunk list.
C29_CitationReferencesItsChunk ==
    clientMessage.set =>
        \A k \in DOMAIN rawJSON.groundingSupports :
            LET support == rawJSON.groundingSupports[k]
            IN \A j \in DOMAIN support.groundingChunkIndices :
                   LET i == support.groundingChunkIndices[j]
                       built == buildCitationsFromSupport(
                                    ShownResults, Support(support.text, <<i>>))
                   IN \A n \in DOMAIN built :
                          /\ i + 1 \in DOMAIN rawJSON.groundingChunks
                          /\ built[n].url = ResolvedUrl(rawJSON.groundingChunks[i + 1].uri)
                          /\ built[n].title = rawJSON.groundingChunks[i + 1].title

\* a support that yields at least one citation
Yields(support) ==
    /\ support.text # ""
    /\ \E j \in DOMAIN support.groundingChunkIndices :
           support.groundingChunkIndices[j] + 1 \in DOMAIN ShownResults
CitingSupports == SelectSeq(rawJSON.groundingSupports, Yields)

\* C30: the content of a grounded message is, in this order, at most one
\* thinking block, exactly one server_tool_use block, exactly one
\* web_search_tool_result block bearing the id of that server_tool_use
\* block, one citation text block per support that yields a citation, in
\* support order, and at most one answer text block.
C30_GroundedBlockOrder ==
    clientMessage.set =>
        LET content == clientMessage.content
            uses == BlocksOfKind(content, "server_tool_use")
            shown == BlocksOfKind(content, "web_search_tool_result")
            cited == BlocksOfKind(content, "citation")
        IN /\ \A i \in DOMAIN content : BlockRank(content[i]) \in 1..5
           /\ \A i, j \in DOMAIN content :
                  i < j => BlockRank(content[i]) <= BlockRank(content[j])
           /\ Len(BlocksOfKind(content, "thinking")) <= 1
           /\ Len(uses) = 1
           /\ Len(shown) = 1
           /\ shown[1].tool_use_id = uses[1].id
           /\ Len(BlocksOfKind(content, "answer")) <= 1
           /\ Len(cited) = Len(CitingSupports)
           /\ \A k \in DOMAIN cited :
                  /\ Len(cited[k].citations) > 0
                  /\ \A n \in DOMAIN cited[k].citations :
                         cited[k].citations[n].cited_text = CitingSupports[k].text

\* a message with a thinking block, two citation blocks from two supports
\* and an answer, one support of the response having yielded no citation
C30_Witness ==
    /\ clientMessage.set
    /\ Len(clientMessage.content) = 6
    /\ Len(rawJSON.groundingSupports) = 2
    /\ Len(BlocksOfKind(clientMessage.content, "citation")) = 2
    /\ BlockKind(clientMessage.content[1]) = "thinking"
    /\ BlockKind(clientMessage.content[6]) = "answer"

\* =====================================================================
\* One backend response on both transports (PairSpec)
\* =====================================================================
\* generateAssistantResponse run once over axios and once over the native
\* requester, the backend answering both with the same status and the same
\* body bytes, cut into chunks in any way.
Transports == {"axios", "requester"}
IdlePath ==
    [pc |-> "request", pos |-> 0, statusCode |-> NoStatus, errorBody |-> << >>,
     cx |-> [InitCx EXCEPT !.out = << >>], events |-> << >>, thrown |-> NoError]

PairInit ==
    /\ backendResponse \in [status : Statuses, body : ConcBodies]
    /\ paths = [t \in Transports |-> IdlePath]
    /\ StreamIdle
    /\ BuildIdle
    /\ PoolIdle
    /\ PureIdle
    /\ RedirIdle
    /\ ConcIdle
    /\ RegIdle
    /\ CancelIdle
    /\ GroundIdle
    /\ WalkIdle
    /\ EmitIdle

\* part_000:61-83: what handleApiError throws for a status and an error body
apiError(st, errBody) ==
    [kind |-> IF st = "403" THEN "disabled" ELSE "api_failed",
     status |-> st, body |-> errBody]

\* The backend's status reaches transport t: axios resolves on 2xx and
\* rejects otherwise (the catch hands the error to handleApiError, which
\* reads the body of the response); the requester reports it to onStart.
PathRespond(t) ==
    LET path == paths[t]
        st == backendResponse.status
    IN /\ path.pc = "request"
       /\ paths' =
            [paths EXCEPT ![t] =
               IF t = "axios"
               THEN IF IsSuccess2xx(st)
                    THEN [path EXCEPT !.pc = "streaming"]
                    ELSE [path EXCEPT
                            !.pc = "rejected",
                            !.thrown = apiError(statusOf(AxiosStatusError(st)),
                                                toString(backendResponse.body))]
               ELSE [path EXCEPT !.pc = "streaming", !.statusCode = st]]
       /\ UNCHANGED backendResponse
       /\ UNCHANGED pairFrame

\* 'data' / onData on transport t, a chunk of n bytes
PathOnData(t, n) ==
    LET path == paths[t]
        b == backendResponse.body
        chunk == toString(SubSeq(b, path.pos + 1, path.pos + n))
        cx == processChunk(path.cx, chunk)
    IN /\ path.pc = "streaming"
       /\ n >= 1
       /\ path.pos + n <= Len(b)
       /\ t = "axios" \/ ~SplitsCharacterOf(b, path.pos + n)
       /\ paths' =
            [paths EXCEPT ![t] =
               IF t = "requester" /\ path.statusCode # "200"
               THEN [path EXCEPT !.pos = @ + n, !.errorBody = @ \o chunk]
               ELSE [path EXCEPT !.pos = @ + n,
                                 !.cx = [cx EXCEPT !.out = << >>],
                                 !.events = @ \o cx.out]]
       /\ UNCHANGED backendResponse
       /\ UNCHANGED pairFrame

\* 'end' / onEnd on transport t
PathOnEnd(t) ==
    LET path == paths[t]
    IN /\ path.pc = "streaming"
       /\ path.pos = Len(backendResponse.body)
       /\ paths' =
            [paths EXCEPT ![t] =
               IF t = "requester" /\ path.statusCode # "200"
               THEN [path EXCEPT
                       !.pc = "rejected",
                       !.thrown = apiError(
                           statusOf(RequesterStatusError(path.statusCode, path.errorBody)),
                           path.errorBody)]
               ELSE [path EXCEPT !.pc = "resolved"]]
       /\ UNCHANGED backendResponse
       /\ UNCHANGED pairFrame

PairNext ==
    \/ \E t \in Transports : PathRespond(t)
    \/ \E t \in Transports : \E n \in 1..Len(backendResponse.body) : PathOnData(t, n)
    \/ \E t \in Transports : PathOnEnd(t)

PairSpec == PairInit /\ [][PairNext]_vars

\* the call on transport t is over
PathOver(t) == paths[t].pc \in {"resolved", "rejected"}

\* C33: the two transports expose one behaviour.  When both calls are
\* over, they have emitted the same events and ended the same way (both
\* resolved, or both rejected with the same class of error), whatever the
\* status; and no chunk of a response whose status is not 2xx has reached
\* the stream interpreter.
C33_TransportsAgree ==
    (\A t \in Transports : PathOver(t)) =>
        /\ paths["axios"].events = paths["requester"].events
        /\ paths["axios"].pc = paths["requester"].pc
        /\ paths["axios"].thrown.kind = paths["requester"].thrown.kind
        /\ ~IsSuccess2xx(backendResponse.status) =>
               \A t \in Transports :
                   /\ paths[t].events = << >>
                   /\ paths[t].cx = IdlePath.cx

\* =====================================================================
\* One invocation of fetchFinalUrl (WalkSpec)
\* =====================================================================
\* fetchFinalUrl(url, timeoutMs) for a redirect URL, with the requests it
\* issues kept in order: the method, the URL asked and the location that
\* getNextLocation made of the answer ('' when there is none).
Request(method, url, location) == [method |-> method, url |-> url, location |-> location]

\* a loop that allows one more iteration
loopConditionOneMore(i) == i < MaxHops + 1

\* webSearchGrounding.js:134: for (let i = 0; i < 5; i++)
loopCondition(i) == i < MaxHops

WalkInit ==
    /\ fetchRun \in {[NoFetchRun EXCEPT !.state = "running", !.url = u, !.current = u] :
                        u \in RedirectUrls}
    /\ StreamIdle
    /\ BuildIdle
    /\ PoolIdle
    /\ PureIdle
    /\ RedirIdle
    /\ ConcIdle
    /\ RegIdle
    /\ CancelIdle
    /\ GroundIdle
    /\ PairIdle
    /\ EmitIdle

\* setTimeout(() => controller.abort(), timeoutMs) fires
WalkTimeout ==
    /\ fetchRun.state = "running"
    /\ ~fetchRun.aborted
    /\ fetchRun' = [fetchRun EXCEPT !.aborted = TRUE]
    /\ UNCHANGED walkFrame

\* One iteration of the loop: the HEAD request and, when it gives no
\* location, the GET request; then the break, the next iteration, or the
\* end of the loop.  After the abort of the controller every fetch rejects.
WalkHop(oh, og) ==
    /\ fetchRun.state = "running"
    /\ IF fetchRun.aborted
       THEN oh = Aborted
       ELSE oh \in OutcomesAt(fetchRun.current)
    /\ IF getNextLocation(oh) # ""
       THEN og = NotIssued
       ELSE IF fetchRun.aborted
       THEN og = Aborted
       ELSE og \in OutcomesAt(fetchRun.current)
    /\ LET current == fetchRun.current
           next == nextLocation(oh, og)
           issued == <<Request("HEAD", current, getNextLocation(oh))>>
                     \o (IF og = NotIssued THEN << >>
                         ELSE <<Request("GET", current, getNextLocation(og))>>)
       IN fetchRun' =
            IF next = "" \/ next = current
            THEN [fetchRun EXCEPT !.state = "fulfilled", !.requests = @ \o issued]
            ELSE IF ~loopCondition(fetchRun.i + 1)
            THEN [fetchRun EXCEPT !.state = "fulfilled", !.current = next,
                                  !.i = @ + 1, !.requests = @ \o issued]
            ELSE [fetchRun EXCEPT !.current = next, !.i = @ + 1,
                                  !.requests = @ \o issued]
    /\ UNCHANGED walkFrame

WalkNext ==
    \/ WalkTimeout
    \/ \E oh, og \in Outcomes \cup {Aborted, NotIssued} : WalkHop(oh, og)

\* every awaited fetch settles: the network answers, or the timer aborts it
WalkSpec == WalkInit /\ [][WalkNext]_vars /\ WF_vars(WalkNext)

\* ---- properties of fetchFinalUrl ----
Requests == fetchRun.requests
\* a hop starts with its HEAD request
Heads == {j \in 1..Len(Requests) : Requests[j].method = "HEAD"}
\* the last request of the hop that starts at j, and the location the hop yields
LastOfHop(j) == IF Requests[j].location # "" THEN j ELSE j + 1
HopLocation(j) == Requests[LastOfHop(j)].location

HopsWellFormed ==
    /\ Cardinality(Heads) <= MaxHops
    /\ Len(Requests) <= 2 * MaxHops
    /\ \A j \in 1..Len(Requests) :
          Requests[j].method = "GET" =>
              /\ j > 1
              /\ Requests[j - 1].method = "HEAD"
              /\ Requests[j - 1].url = Requests[j].url
              /\ Requests[j - 1].location = ""
    /\ \A j \in Heads :
          /\ LastOfHop(j) <= Len(Requests)
          /\ Requests[LastOfHop(j)].url = Requests[j].url
          /\ IF HopLocation(j) = "" \/ HopLocation(j) = Requests[j].url
             THEN /\ LastOfHop(j) = Len(Requests)
                  /\ fetchRun.state = "fulfilled"
                  /\ fetchRun.current = Requests[j].url
             ELSE IF LastOfHop(j) < Len(Requests)
             THEN /\ Requests[LastOfHop(j) + 1].method = "HEAD"
                  /\ Requests[LastOfHop(j) + 1].url = HopLocation(j)
             ELSE /\ fetchRun.current = HopLocation(j)
                  /\ fetchRun.state = "running" <=> Cardinality(Heads) < MaxHops

\* C32: fetchFinalUrl terminates, after at most 5 hops and 10 requests,
\* redirect cycles included; in a hop the GET is issued only when the HEAD
\* gave no location, and the loop stops at the first hop that yields no
\* location or the URL it asked.
C32_FetchFinalUrlTerminates ==
    /\ []HopsWellFormed
    /\ <>(fetchRun.state = "fulfilled")

\* five hops round a cycle of redirects, each found by the GET after a HEAD
\* without location
C32_Witness ==
    /\ fetchRun.state = "fulfilled"
    /\ Len(Requests) = 2 * MaxHops
    /\ \E j, k \in Heads : j < k /\ Requests[j].url = Requests[k].url

\* =====================================================================
\* Streamed web-search blocks (EmitSpec)
\* =====================================================================
\* emitWebSearchBlocks(state, emitEvent): the state holds the index of the
\* next content block and the web-search data collected from the stream.
EntryIndices == {0, 1, 2}
BufferedTexts == {<< >>, <<"x">>, <<"", "x">>, <<"x", "y">>}
WebSearchStates ==
    [contentIndex : EntryIndices,
     toolUseId : {"", "srvtoolu_0"},
     results : {toWebSearchResults(c) : c \in SeqsUpTo(ChunkValues, MaxChunks)},
     supports : SeqsUpTo(SupportValues, MaxSupports),
     bufferedTextParts : BufferedTexts]

BlockStart(index, block) ==
    [type |-> "content_block_start", index |-> index, payload |-> block]
BlockDelta(index, delta) ==
    [type |-> "content_block_delta", index |-> index, payload |-> delta]
BlockStop(index) ==
    [type |-> "content_block_stop", index |-> index, payload |-> << >>]

\* webSearchGrounding.js:381-387: one citations_delta per citation
citationDeltas(index, citations) ==
    [n \in DOMAIN citations |-> BlockDelta(index, <<"citations_delta", citations[n]>>)]

\* the citation blocks, all under the index the first one gets
RECURSIVE emitCitationBlocksSameIndex(_, _, _)
emitCitationBlocksSameIndex(results, supports, index) ==
    IF supports = << >> THEN [events |-> << >>, contentIndex |-> index]
    ELSE LET citations == buildCitationsFromSupport(results, Head(supports))
             rest == emitCitationBlocksSameIndex(results, Tail(supports), index)
         IN IF Len(citations) = 0 THEN rest
            ELSE [events |-> <<BlockStart(index, <<"text">>)>>
                             \o citationDeltas(index, citations)
                             \o <<BlockStop(index)>> \o rest.events,
                  contentIndex |-> index + 1]

\* webSearchGrounding.js:371-393: a block for each support that has citations
RECURSIVE emitCitationBlocks(_, _, _)
emitCitationBlocks(results, supports, index) ==
    IF supports = << >> THEN [events |-> << >>, contentIndex |-> index]
    ELSE LET citations == buildCitationsFromSupport(results, Head(supports))
         IN IF Len(citations) = 0
            THEN emitCitationBlocks(results, Tail(supports), index)
            ELSE LET rest == emitCitationBlocks(results, Tail(supports), index + 1)
                 IN [events |-> <<BlockStart(index, <<"text">>)>>
                                \o citationDeltas(index, citations)
                                \o <<BlockStop(index)>> \o rest.events,
                     contentIndex |-> rest.contentIndex]

\* webSearchGrounding.js:401-410: a text_delta per buffered text that is not empty
RECURSIVE textDeltas(_, _)
textDeltas(index, texts) ==
    IF texts = << >> THEN << >>
    ELSE (IF Head(texts) = "" THEN << >>
          ELSE <<BlockDelta(index, <<"text_delta", Head(texts)>>)>>)
         \o textDeltas(index, Tail(texts))

\* webSearchGrounding.js:329-419
emitWebSearchBlocks(st) ==
    LET toolUseId == IF st.toolUseId # "" THEN st.toolUseId ELSE makeSrvToolUseId
        i0 == st.contentIndex
        use == <<BlockStart(i0, <<"server_tool_use", toolUseId>>),
                 BlockDelta(i0, <<"input_json_delta">>),
                 BlockStop(i0)>>
        i1 == i0 + 1
        shown == <<BlockStart(i1, <<"web_search_tool_result", toolUseId>>),
                   BlockStop(i1)>>
        cited == emitCitationBlocks(st.results, st.supports, i1 + 1)
        i2 == cited.contentIndex
        text == <<BlockStart(i2, <<"text">>)>>
                \o textDeltas(i2, st.bufferedTextParts)
                \o <<BlockStop(i2)>>
    IN [set |-> TRUE,
        events |-> use \o shown \o cited.events \o text,
        contentIndex |-> i2 + 1,
        toolUseId |-> toolUseId]

EmitInit ==
    /\ webSearchState \in WebSearchStates
    /\ emitResult = NoEmitResult
    /\ StreamIdle
    /\ BuildIdle
    /\ PoolIdle
    /\ PureIdle
    /\ RedirIdle
    /\ ConcIdle
    /\ RegIdle
    /\ CancelIdle
    /\ GroundIdle
    /\ PairIdle
    /\ WalkIdle

EmitWebSearchBlocks ==
    /\ ~emitResult.set
    /\ emitResult' = emitWebSearchBlocks(webSearchState)
    /\ UNCHANGED webSearchState
    /\ UNCHANGED emitFrame

EmitNext == EmitWebSearchBlocks

EmitSpec == EmitInit /\ [][EmitNext]_vars

\* ---- properties of the emitted blocks ----
\* Reading the events in order: a start opens the block of the next index
\* while none is open, a delta and a stop bear the index of the open
\* block, a stop closes it.  Gives the index after the last block.
RECURSIVE ScanBlocks(_, _, _)
ScanBlocks(evs, open, next) ==
    IF evs = << >> THEN [ok |-> ~open, next |-> next]
    ELSE LET e == Head(evs)
         IN IF e.type = "content_block_start"
            THEN IF ~open /\ e.index = next
                 THEN ScanBlocks(Tail(evs), TRUE, next)
                 ELSE [ok |-> FALSE, next |-> next]
            ELSE IF e.type = "content_block_delta"
            THEN IF open /\ e.index = next
                 THEN ScanBlocks(Tail(evs), TRUE, next)
                 ELSE [ok |-> FALSE, next |-> next]
            ELSE IF open /\ e.index = next
                 THEN ScanBlocks(Tail(evs), FALSE, next + 1)
                 ELSE [ok |-> FALSE, next |-> next]

\* the supports of the state that yield at least one citation
StateYields(support) ==
    /\ support.text # ""
    /\ \E j \in DOMAIN support.groundingChunkIndices :
           support.groundingChunkIndices[j] + 1 \in DOMAIN webSearchState.results
StateCitingSupports == SelectSeq(webSearchState.supports, StateYields)

\* C31: emitWebSearchBlocks emits well-formed blocks with consecutive
\* indices from state.contentIndex on, and leaves state.contentIndex one
\* past the last block: the entry value plus 3 plus the number of supports
\* that yield citations.
C31_BlocksConsecutivelyIndexed ==
    emitResult.set =>
        LET scan == ScanBlocks(emitResult.events, FALSE, webSearchState.contentIndex)
        IN /\ scan.ok
           /\ scan.next = emitResult.contentIndex
           /\ emitResult.contentIndex =
                  webSearchState.contentIndex + 3 + Len(StateCitingSupports)

\* entered at index 2 with two supports that yield citations: blocks 2..6
C31_Witness ==
    /\ emitResult.set
    /\ webSearchState.contentIndex = 2
    /\ Len(StateCitingSupports) = 2
    /\ emitResult.contentIndex = 7
    /\ \E i \in 1..Len(emitResult.events) :
           emitResult.events[i].type = "content_block_start"
           /\ emitResult.events[i].index = 6

====
